---- MODULE Spec2Model ----
(***************************************************************************)
(* Conversation-stage state machine and intent routing of the medical      *)
(* voice assistant (src/agents1.py): the LangGraph conversation graph, its *)
(* nodes and routing functions, and the run_conversation loop that drives  *)
(* it turn by turn.                                                        *)
(*                                                                         *)
(* Text that the code inspects (the user input, the classification text    *)
(* returned by the LLM) is a sequence of one-character strings, so that    *)
(* lower(), strip() and the substring tests of the code are computed.      *)
(* Text that is only stored and compared (replies) is a TLA+ string.       *)
(***************************************************************************)
EXTENDS Naturals, Sequences, FiniteSets, TLC

VARIABLES state, pc, last, round_owner, turns, agent, ui

vars == <<state, pc, last, round_owner, turns, agent, ui>>

(***************************************************************************)
(* Bounds of the model.                                                    *)
(***************************************************************************)
\* graph turns run_conversation performs after the greeting
MaxTurns == 3
\* words per utterance in the classifier specification
MaxWords == 2
\* menu choices made in the detail-round specification
MaxRounds == 1
\* calls a caller makes on one MedicalVoiceAgent
MaxCalls == 3
\* items a list of the user profile holds at most
MaxProfileItems == 2

(***************************************************************************)
(* str.lower(), str.strip() and the substring test `t in s`.               *)
(***************************************************************************)
UpperChars == <<"A","B","C","D","E","F","G","H","I","J","K","L","M","N","O","P","Q","R","S","T","U","V","W","X","Y","Z">>

LowerChars == <<"a","b","c","d","e","f","g","h","i","j","k","l","m","n","o","p","q","r","s","t","u","v","w","x","y","z">>

Whitespace == {" ", "\n", "\t"}

LowerChar(c) ==
    IF \E i \in 1..Len(UpperChars) : UpperChars[i] = c
    THEN LowerChars[CHOOSE i \in 1..Len(UpperChars) : UpperChars[i] = c]
    ELSE c

Lower(s) == [i \in 1..Len(s) |-> LowerChar(s[i])]

Strip(s) ==
    LET keep == {i \in 1..Len(s) : s[i] \notin Whitespace}
    IN  IF keep = {} THEN <<>>
        ELSE LET lo == CHOOSE i \in keep : \A j \in keep : i <= j
                 hi == CHOOSE i \in keep : \A j \in keep : j <= i
             IN  SubSeq(s, lo, hi)

Contains(s, t) ==
    \E i \in 0..(Len(s) - Len(t)) : SubSeq(s, i + 1, i + Len(t)) = t

ContainsAny(s, words) == \E w \in words : Contains(s, w)

(***************************************************************************)
(* Keyword lists of handle_user_choice.                                    *)
(***************************************************************************)
EXIT_WORDS == {<<"e","x","i","t">>, <<"q","u","i","t">>, <<"s","t","o","p">>, <<"g","o","o","d","b","y","e">>, <<"b","y","e">>}

OPTION1_TOKENS == {<<"1">>, <<"f","i","r","s","t">>, <<"o","n","e">>}

OPTION2_TOKENS == {<<"2">>, <<"s","e","c","o","n","d">>, <<"t","w","o">>}

OPTION3_TOKENS == {<<"3">>, <<"t","h","i","r","d">>, <<"t","h","r","e","e">>}

OPTION4_TOKENS == {<<"4">>, <<"f","o","u","r","t","h">>, <<"f","o","u","r">>, <<"e","m","e","r","g","e","n","c","y">>}

SYMPTOM_WORDS ==
    {<<"s","y","m","p","t","o","m">>, <<"p","a","i","n">>, <<"a","c","h","e">>, <<"s","i","c","k">>, <<"f","e","e","l">>, <<"h","u","r","t">>,
     <<"h","e","a","d","a","c","h","e">>, <<"f","e","v","e","r">>, <<"c","o","u","g","h">>, <<"t","i","r","e","d">>}

MEDICATION_WORDS ==
    {<<"m","e","d","i","c","i","n","e">>, <<"m","e","d","i","c","a","t","i","o","n">>, <<"p","i","l","l">>, <<"d","r","u","g">>, <<"f","o","r","g","o","t">>, <<"d","o","s","e">>,
     <<"p","r","e","s","c","r","i","p","t","i","o","n">>, <<"m","e","t","f","o","r","m","i","n">>}

HEALTH_WORDS ==
    {<<"h","e","a","l","t","h">>, <<"f","o","o","d">>, <<"d","i","e","t">>, <<"e","x","e","r","c","i","s","e">>, <<"s","l","e","e","p">>, <<"w","e","l","l","n","e","s","s">>,
     <<"t","i","p","s">>, <<"e","a","t">>, <<"n","u","t","r","i","t","i","o","n">>}

\* run_conversation leaves its loop on these, before any graph turn
LOOP_EXIT_WORDS == {<<"e","x","i","t">>, <<"q","u","i","t">>}

(***************************************************************************)
(* Fixed reply texts (abridged to their first sentence or so).             *)
(***************************************************************************)
GREETING_TEXT ==
    "Hello! I'm your Medical Voice Assistant. [...] Please tell me which service you need (say 1, 2, 3, 4 or describe what you want)."

SYMPTOM_PROMPT ==
    "Great! I'll help you with your symptoms. Please describe what you're experiencing - what symptoms do you have?"

SYMPTOM_FALLBACK ==
    "I'm having trouble analyzing that. Could you describe your symptoms again?"

MEDICATION_PROMPT ==
    "I can help you with your medications! What do you need help with? [...]"

MEDICATION_FALLBACK ==
    "I understand medication management can be challenging. How can I help you specifically?"

HEALTH_PROMPT ==
    "I'd be happy to provide health advice! What would you like to know about? [...]"

HEALTH_FALLBACK ==
    "That's a great question! Could you be more specific about what you'd like to know?"

EMERGENCY_TEXT ==
    "EMERGENCY ALERT! This sounds like a medical emergency! [...] Call 911 (or your local emergency number) IMMEDIATELY [...]"

UNCLEAR_TEXT ==
    "I didn't quite understand. Please choose one of these options: [...] You can say the number (like \"1\") or describe what you need."

GOODBYE_TEXT == "Goodbye! Stay healthy!"

(***************************************************************************)
(* The external LLM (llm.invoke): it returns a text or raises.  A          *)
(* generation outcome carries the reply as the code stores it, that is     *)
(* after .strip(); a classification outcome carries the raw text, which    *)
(* the classifier strips, lowers and searches.                             *)
(***************************************************************************)
LLM_RAISES == [ok |-> FALSE, content |-> <<>>]

CLASSIFY_TEXTS ==
    {<<"s","y","m","p","t","o","m","_","c","h","e","c","k">>, <<" ","M","e","d","i","c","a","t","i","o","n","_","R","e","m","i","n","d","e","r","\n">>, <<"g","e","n","e","r","a","l","_","h","e","a","l","t","h">>,
     <<"e","m","e","r","g","e","n","c","y">>, <<"T","h","e"," ","c","a","t","e","g","o","r","y"," ","i","s"," ","e","m","e","r","g","e","n","c","y",".">>, <<"h","e","a","l","t","h">>,
     <<"I"," ","a","m"," ","n","o","t"," ","s","u","r","e">>, <<>>, <<"e","m","e","r","g","e","n","c","y",","," ","n","o","t"," ","a"," ","s","y","m","p","t","o","m">>}

ClassifyOutcomes ==
    {[ok |-> TRUE, content |-> t] : t \in CLASSIFY_TEXTS} \cup {LLM_RAISES}

GEN_REPLIES == {"Rest and drink fluids.", "Take it with food."}

GenerateOutcomes ==
    {[ok |-> TRUE, content |-> r] : r \in GEN_REPLIES}
        \cup {[ok |-> FALSE, content |-> ""]}

(***************************************************************************)
(* ConversationState.  llm_log is instrumentation: the llm.invoke calls    *)
(* made during the current graph invocation, in order.  The messages list  *)
(* (a log no node reads) and the voice settings are left out.              *)
(***************************************************************************)
DEFAULT_PROFILE == [medications |-> <<>>, conditions |-> <<>>]

create_initial_state(user_input, user_profile, is_first_message) ==
    [user_input           |-> user_input,
     response             |-> "",
     stage                |-> IF is_first_message THEN "greeting"
                              ELSE "waiting_for_choice",
     intent               |-> "",
     user_profile         |-> user_profile,
     next_action          |-> "route",
     conversation_history |-> <<>>,
     llm_log              |-> <<>>]

LlmCall(kind, outcome) == [call |-> kind, ok |-> outcome.ok]

(***************************************************************************)
(* Nodes of the graph.                                                     *)
(***************************************************************************)
greeting_node(s) ==
    [s EXCEPT !.response = GREETING_TEXT,
              !.stage = "waiting_for_choice",
              !.next_action = "route"]

\* parse_llm_intent that keeps a label of its own for an unrecognised text
parse_llm_intent_unrecognised_label(cls) ==
    LET intent == Lower(Strip(cls.content))
    IN  IF ~cls.ok THEN "unclear"
        ELSE IF Contains(intent, <<"s","y","m","p","t","o","m">>) THEN "symptom_check"
        ELSE IF Contains(intent, <<"m","e","d","i","c","a","t","i","o","n">>) THEN "medication_reminder"
        ELSE IF Contains(intent, <<"g","e","n","e","r","a","l">>) \/ Contains(intent, <<"h","e","a","l","t","h">>)
             THEN "general_health"
        ELSE IF Contains(intent, <<"e","m","e","r","g","e","n","c","y">>) THEN "emergency"
        ELSE "other"

\* parse_llm_intent that compares the text with the category names for equality
parse_llm_intent_exact_match(cls) ==
    LET intent == Lower(Strip(cls.content))
    IN  IF ~cls.ok THEN "unclear"
        ELSE IF intent = <<"s","y","m","p","t","o","m","_","c","h","e","c","k">> THEN "symptom_check"
        ELSE IF intent = <<"m","e","d","i","c","a","t","i","o","n","_","r","e","m","i","n","d","e","r">> THEN "medication_reminder"
        ELSE IF intent = <<"g","e","n","e","r","a","l","_","h","e","a","l","t","h">> THEN "general_health"
        ELSE IF intent = <<"e","m","e","r","g","e","n","c","y">> THEN "emergency"
        ELSE "unclear"

\* parse_llm_intent whose except branch assigns no intent label
parse_llm_intent_failure_unset(cls) ==
    LET intent == Lower(Strip(cls.content))
    IN  IF ~cls.ok THEN ""
        ELSE IF Contains(intent, <<"s","y","m","p","t","o","m">>) THEN "symptom_check"
        ELSE IF Contains(intent, <<"m","e","d","i","c","a","t","i","o","n">>) THEN "medication_reminder"
        ELSE IF Contains(intent, <<"g","e","n","e","r","a","l">>) \/ Contains(intent, <<"h","e","a","l","t","h">>)
             THEN "general_health"
        ELSE IF Contains(intent, <<"e","m","e","r","g","e","n","c","y">>) THEN "emergency"
        ELSE "unclear"

\* the intent parsed out of the LLM's classification text
parse_llm_intent(cls) ==
    LET intent == Lower(Strip(cls.content))
    IN  IF ~cls.ok THEN "unclear"
        ELSE IF Contains(intent, <<"s","y","m","p","t","o","m">>) THEN "symptom_check"
        ELSE IF Contains(intent, <<"m","e","d","i","c","a","t","i","o","n">>) THEN "medication_reminder"
        ELSE IF Contains(intent, <<"g","e","n","e","r","a","l">>) \/ Contains(intent, <<"h","e","a","l","t","h">>)
             THEN "general_health"
        ELSE IF Contains(intent, <<"e","m","e","r","g","e","n","c","y">>) THEN "emergency"
        ELSE "unclear"

\* choice_rule without the general-health keyword bucket
choice_rule_no_health_bucket(user_input) ==
    IF user_input \in EXIT_WORDS THEN "exit"
    ELSE IF ContainsAny(user_input, OPTION1_TOKENS) THEN "option1"
    ELSE IF ContainsAny(user_input, OPTION2_TOKENS) THEN "option2"
    ELSE IF ContainsAny(user_input, OPTION3_TOKENS) THEN "option3"
    ELSE IF ContainsAny(user_input, OPTION4_TOKENS) THEN "option4"
    ELSE IF ContainsAny(user_input, SYMPTOM_WORDS) THEN "symptom_words"
    ELSE IF ContainsAny(user_input, MEDICATION_WORDS) THEN "medication_words"
    ELSE "llm"

\* choice_rule with the medication bucket tried before the symptom bucket
choice_rule_medication_first(user_input) ==
    IF user_input \in EXIT_WORDS THEN "exit"
    ELSE IF ContainsAny(user_input, OPTION1_TOKENS) THEN "option1"
    ELSE IF ContainsAny(user_input, OPTION2_TOKENS) THEN "option2"
    ELSE IF ContainsAny(user_input, OPTION3_TOKENS) THEN "option3"
    ELSE IF ContainsAny(user_input, OPTION4_TOKENS) THEN "option4"
    ELSE IF ContainsAny(user_input, MEDICATION_WORDS) THEN "medication_words"
    ELSE IF ContainsAny(user_input, SYMPTOM_WORDS) THEN "symptom_words"
    ELSE IF ContainsAny(user_input, HEALTH_WORDS) THEN "health_words"
    ELSE "llm"

\* choice_rule with the checks of options 1 and 2 in the wrong order
choice_rule_option2_first(user_input) ==
    IF user_input \in EXIT_WORDS THEN "exit"
    ELSE IF ContainsAny(user_input, OPTION2_TOKENS) THEN "option2"
    ELSE IF ContainsAny(user_input, OPTION1_TOKENS) THEN "option1"
    ELSE IF ContainsAny(user_input, OPTION3_TOKENS) THEN "option3"
    ELSE IF ContainsAny(user_input, OPTION4_TOKENS) THEN "option4"
    ELSE IF ContainsAny(user_input, SYMPTOM_WORDS) THEN "symptom_words"
    ELSE IF ContainsAny(user_input, MEDICATION_WORDS) THEN "medication_words"
    ELSE IF ContainsAny(user_input, HEALTH_WORDS) THEN "health_words"
    ELSE "llm"

\* choice_rule with the emergency option checked ahead of options 1 to 3
choice_rule_emergency_first(user_input) ==
    IF user_input \in EXIT_WORDS THEN "exit"
    ELSE IF ContainsAny(user_input, OPTION4_TOKENS) THEN "option4"
    ELSE IF ContainsAny(user_input, OPTION1_TOKENS) THEN "option1"
    ELSE IF ContainsAny(user_input, OPTION2_TOKENS) THEN "option2"
    ELSE IF ContainsAny(user_input, OPTION3_TOKENS) THEN "option3"
    ELSE IF ContainsAny(user_input, SYMPTOM_WORDS) THEN "symptom_words"
    ELSE IF ContainsAny(user_input, MEDICATION_WORDS) THEN "medication_words"
    ELSE IF ContainsAny(user_input, HEALTH_WORDS) THEN "health_words"
    ELSE "llm"

\* the branch of handle_user_choice that decides the normalised input
choice_rule(user_input) ==
    IF user_input \in EXIT_WORDS THEN "exit"
    ELSE IF ContainsAny(user_input, OPTION1_TOKENS) THEN "option1"
    ELSE IF ContainsAny(user_input, OPTION2_TOKENS) THEN "option2"
    ELSE IF ContainsAny(user_input, OPTION3_TOKENS) THEN "option3"
    ELSE IF ContainsAny(user_input, OPTION4_TOKENS) THEN "option4"
    ELSE IF ContainsAny(user_input, SYMPTOM_WORDS) THEN "symptom_words"
    ELSE IF ContainsAny(user_input, MEDICATION_WORDS) THEN "medication_words"
    ELSE IF ContainsAny(user_input, HEALTH_WORDS) THEN "health_words"
    ELSE "llm"

select_intent(s, intent) ==
    [s EXCEPT !.intent = intent, !.stage = "processing", !.next_action = "route"]

\* handle_user_choice that keeps an intent stored by an earlier turn
handle_user_choice_caches_intent(s, cls) ==
    IF s.intent # "" THEN select_intent(s, s.intent)
    ELSE LET user_input == Strip(Lower(s.user_input))
             rule == choice_rule(user_input)
         IN  CASE rule = "exit" ->
                    [s EXCEPT !.intent = "exit", !.stage = "exit",
                              !.next_action = "exit"]
               [] rule \in {"option1", "symptom_words"} ->
                    select_intent(s, "symptom_check")
               [] rule \in {"option2", "medication_words"} ->
                    select_intent(s, "medication_reminder")
               [] rule \in {"option3", "health_words"} ->
                    select_intent(s, "general_health")
               [] rule = "option4" -> select_intent(s, "emergency")
               [] OTHER ->
                    [select_intent(s, parse_llm_intent(cls))
                        EXCEPT !.llm_log = Append(@, LlmCall("classify", cls))]

handle_user_choice(s, cls) ==
    LET user_input == Strip(Lower(s.user_input))
        rule == choice_rule(user_input)
    IN  CASE rule = "exit" ->
               [s EXCEPT !.intent = "exit", !.stage = "exit", !.next_action = "exit"]
          [] rule \in {"option1", "symptom_words"} -> select_intent(s, "symptom_check")
          [] rule \in {"option2", "medication_words"} ->
               select_intent(s, "medication_reminder")
          [] rule \in {"option3", "health_words"} -> select_intent(s, "general_health")
          [] rule = "option4" -> select_intent(s, "emergency")
          [] OTHER ->
               [select_intent(s, parse_llm_intent(cls))
                   EXCEPT !.llm_log = Append(@, LlmCall("classify", cls))]

\* domain_agent that records its clarifying prompt in the history
domain_agent_prompt_in_history(s, gen, prompt, fallback) ==
    IF s.stage # "waiting_for_details"
    THEN [s EXCEPT !.response = prompt,
                   !.stage = "waiting_for_details",
                   !.next_action = "stay",
                   !.conversation_history =
                       Append(@, [user |-> s.user_input, assistant |-> prompt])]
    ELSE IF gen.ok
    THEN [s EXCEPT !.response = gen.content,
                   !.stage = "complete",
                   !.next_action = "route",
                   !.conversation_history =
                       Append(@, [user |-> s.user_input, assistant |-> gen.content]),
                   !.llm_log = Append(@, LlmCall("generate", gen))]
    ELSE [s EXCEPT !.response = fallback,
                   !.stage = "waiting_for_details",
                   !.next_action = "stay",
                   !.llm_log = Append(@, LlmCall("generate", gen))]

\* domain_agent whose except branch ends the detail round
domain_agent_failure_completes(s, gen, prompt, fallback) ==
    IF s.stage # "waiting_for_details"
    THEN [s EXCEPT !.response = prompt,
                   !.stage = "waiting_for_details",
                   !.next_action = "stay"]
    ELSE IF gen.ok
    THEN [s EXCEPT !.response = gen.content,
                   !.stage = "complete",
                   !.next_action = "route",
                   !.conversation_history =
                       Append(@, [user |-> s.user_input, assistant |-> gen.content]),
                   !.llm_log = Append(@, LlmCall("generate", gen))]
    ELSE [s EXCEPT !.response = fallback,
                   !.stage = "complete",
                   !.next_action = "route",
                   !.llm_log = Append(@, LlmCall("generate", gen))]

\* domain_agent that also notes the answered request in the profile
domain_agent_writes_profile(s, gen, prompt, fallback) ==
    IF s.stage # "waiting_for_details"
    THEN [s EXCEPT !.response = prompt,
                   !.stage = "waiting_for_details",
                   !.next_action = "stay"]
    ELSE IF gen.ok
    THEN [s EXCEPT !.response = gen.content,
                   !.stage = "complete",
                   !.next_action = "route",
                   !.conversation_history =
                       Append(@, [user |-> s.user_input, assistant |-> gen.content]),
                   !.user_profile.conditions = Append(@, "reported"),
                   !.llm_log = Append(@, LlmCall("generate", gen))]
    ELSE [s EXCEPT !.response = fallback,
                   !.stage = "waiting_for_details",
                   !.next_action = "stay",
                   !.llm_log = Append(@, LlmCall("generate", gen))]

\* domain_agent whose try branch answers but keeps asking for details
domain_agent_success_keeps_asking(s, gen, prompt, fallback) ==
    IF s.stage # "waiting_for_details"
    THEN [s EXCEPT !.response = prompt,
                   !.stage = "waiting_for_details",
                   !.next_action = "stay"]
    ELSE [s EXCEPT !.response = IF gen.ok THEN gen.content ELSE fallback,
                   !.stage = "waiting_for_details",
                   !.next_action = "stay",
                   !.llm_log = Append(@, LlmCall("generate", gen))]

\* domain_agent whose clarifying prompt drops the stored intent
domain_agent_prompt_clears_intent(s, gen, prompt, fallback) ==
    IF s.stage # "waiting_for_details"
    THEN [s EXCEPT !.response = prompt,
                   !.stage = "waiting_for_details",
                   !.next_action = "stay",
                   !.intent = ""]
    ELSE IF gen.ok
    THEN [s EXCEPT !.response = gen.content,
                   !.stage = "complete",
                   !.next_action = "route",
                   !.conversation_history =
                       Append(@, [user |-> s.user_input, assistant |-> gen.content]),
                   !.llm_log = Append(@, LlmCall("generate", gen))]
    ELSE [s EXCEPT !.response = fallback,
                   !.stage = "waiting_for_details",
                   !.next_action = "stay",
                   !.llm_log = Append(@, LlmCall("generate", gen))]

\* domain_agent that asks the generator a second time when it fails
domain_agent_retries_generation(s, gen, prompt, fallback) ==
    IF s.stage # "waiting_for_details"
    THEN [s EXCEPT !.response = prompt,
                   !.stage = "waiting_for_details",
                   !.next_action = "stay"]
    ELSE IF gen.ok
    THEN [s EXCEPT !.response = gen.content,
                   !.stage = "complete",
                   !.next_action = "route",
                   !.conversation_history =
                       Append(@, [user |-> s.user_input, assistant |-> gen.content]),
                   !.llm_log = Append(@, LlmCall("generate", gen))]
    ELSE [s EXCEPT !.response = fallback,
                   !.stage = "waiting_for_details",
                   !.next_action = "stay",
                   !.llm_log = Append(Append(@, LlmCall("generate", gen)),
                                      LlmCall("generate", gen))]

\* the shape the three generative agents share
domain_agent(s, gen, prompt, fallback) ==
    IF s.stage # "waiting_for_details"
    THEN [s EXCEPT !.response = prompt,
                   !.stage = "waiting_for_details",
                   !.next_action = "stay"]
    ELSE IF gen.ok
    THEN [s EXCEPT !.response = gen.content,
                   !.stage = "complete",
                   !.next_action = "route",
                   !.conversation_history =
                       Append(@, [user |-> s.user_input, assistant |-> gen.content]),
                   !.llm_log = Append(@, LlmCall("generate", gen))]
    ELSE [s EXCEPT !.response = fallback,
                   !.stage = "waiting_for_details",
                   !.next_action = "stay",
                   !.llm_log = Append(@, LlmCall("generate", gen))]

symptom_agent(s, gen) == domain_agent(s, gen, SYMPTOM_PROMPT, SYMPTOM_FALLBACK)

medication_agent(s, gen) ==
    domain_agent(s, gen, MEDICATION_PROMPT, MEDICATION_FALLBACK)

health_advisor_agent(s, gen) == domain_agent(s, gen, HEALTH_PROMPT, HEALTH_FALLBACK)

\* emergency_agent that hands the turn back to the menu instead of ending it
emergency_agent_routes_back(s) ==
    [s EXCEPT !.response = EMERGENCY_TEXT,
              !.stage = "complete",
              !.next_action = "route",
              !.conversation_history =
                  Append(@, [user |-> s.user_input, assistant |-> EMERGENCY_TEXT])]

emergency_agent(s) ==
    [s EXCEPT !.response = EMERGENCY_TEXT,
              !.stage = "complete",
              !.next_action = "exit",
              !.conversation_history =
                  Append(@, [user |-> s.user_input, assistant |-> EMERGENCY_TEXT])]

\* unclear_handler that ends the session instead of showing the menu again
unclear_handler_exits(s) ==
    [s EXCEPT !.response = UNCLEAR_TEXT,
              !.stage = "waiting_for_choice",
              !.next_action = "exit",
              !.conversation_history =
                  Append(@, [user |-> s.user_input, assistant |-> UNCLEAR_TEXT])]

unclear_handler(s) ==
    [s EXCEPT !.response = UNCLEAR_TEXT,
              !.stage = "waiting_for_choice",
              !.next_action = "route",
              !.conversation_history =
                  Append(@, [user |-> s.user_input, assistant |-> UNCLEAR_TEXT])]

\* route_back_node that starts the menu round with an empty history
route_back_node_forgets_history(s) ==
    [s EXCEPT !.stage = IF @ = "complete" THEN "waiting_for_choice" ELSE @,
              !.user_input = <<>>,
              !.conversation_history = IF s.stage = "complete" THEN <<>> ELSE @]

\* route_back_node that reopens the detail round after a completed one
route_back_node_reopens_round(s) ==
    [s EXCEPT !.stage = IF @ = "complete" THEN "waiting_for_details" ELSE @,
              !.user_input = <<>>]

\* route_back_node without the reset of a completed stage
route_back_node_keeps_stage(s) == [s EXCEPT !.user_input = <<>>]

route_back_node(s) ==
    [s EXCEPT !.stage = IF @ = "complete" THEN "waiting_for_choice" ELSE @,
              !.user_input = <<>>]

\* exit_node that says goodbye and leaves the stage as it finds it
exit_node_keeps_stage(s) ==
    [s EXCEPT !.response = GOODBYE_TEXT, !.next_action = "exit"]

\* exit_node that records its goodbye in the history
exit_node_records_goodbye(s) ==
    [s EXCEPT !.response = GOODBYE_TEXT, !.stage = "exit", !.next_action = "exit",
              !.conversation_history =
                  Append(@, [user |-> s.user_input, assistant |-> GOODBYE_TEXT])]

exit_node(s) ==
    [s EXCEPT !.response = GOODBYE_TEXT, !.stage = "exit", !.next_action = "exit"]

(***************************************************************************)
(* Routing functions.                                                      *)
(***************************************************************************)
route_after_agent(s) ==
    IF s.next_action = "stay" THEN "repeat"
    ELSE IF s.next_action = "exit" THEN "exit"
    ELSE "route"

route_from_choice(s) ==
    CASE s.intent = "symptom_check" -> "symptom"
      [] s.intent = "medication_reminder" -> "medication"
      [] s.intent = "general_health" -> "health"
      [] s.intent = "emergency" -> "emergency"
      [] s.intent = "exit" -> "exit"
      [] OTHER -> "unclear"

\* route_from_router without the exit case
route_from_router_ignores_exit(s) ==
    IF s.stage = "greeting" THEN "greeting"
    ELSE IF s.stage = "waiting_for_details" THEN route_from_choice(s)
    ELSE "choice_handler"

\* route_from_router without the waiting_for_details case
route_from_router_always_classifies(s) ==
    IF s.stage = "greeting" THEN "greeting"
    ELSE IF s.stage = "exit" THEN "exit"
    ELSE "choice_handler"

\* route_from_router without the greeting case
route_from_router_skips_greeting(s) ==
    IF s.stage = "exit" THEN "exit"
    ELSE IF s.stage = "waiting_for_details" THEN route_from_choice(s)
    ELSE "choice_handler"

route_from_router(s) ==
    IF s.stage = "greeting" THEN "greeting"
    ELSE IF s.stage = "exit" THEN "exit"
    ELSE IF s.stage = "waiting_for_details" THEN route_from_choice(s)
    ELSE "choice_handler"

(***************************************************************************)
(* The compiled graph of create_conversational_graph: entry point router,  *)
(* one node after the other along the edges, until END.                    *)
(***************************************************************************)
AGENT_NODES == {"symptom", "medication", "health", "emergency", "unclear"}

DOMAIN_NODES == {"symptom", "medication", "health"}

\* the edges of an agent node with "repeat" shown the menu again in the
\* same turn
agent_edge_repeat_shows_menu(answer) ==
    IF answer = "exit" THEN "exit"
    ELSE IF answer = "repeat" THEN "unclear"
    ELSE "route_back"

\* the target of route_after_agent's answer
agent_edge(answer) == IF answer = "exit" THEN "exit" ELSE "route_back"

run_node(node, s, cls, gen) ==
    CASE node = "router" -> s
      [] node = "greeting" -> greeting_node(s)
      [] node = "choice_handler" -> handle_user_choice(s, cls)
      [] node = "symptom" -> symptom_agent(s, gen)
      [] node = "medication" -> medication_agent(s, gen)
      [] node = "health" -> health_advisor_agent(s, gen)
      [] node = "emergency" -> emergency_agent(s)
      [] node = "unclear" -> unclear_handler(s)
      [] node = "route_back" -> route_back_node(s)
      [] node = "exit" -> exit_node(s)

next_node(node, s) ==
    CASE node = "router" -> route_from_router(s)
      [] node = "greeting" -> "route_back"
      [] node = "choice_handler" -> route_from_choice(s)
      [] node \in AGENT_NODES -> agent_edge(route_after_agent(s))
      [] node \in {"route_back", "exit"} -> "END"

RECURSIVE run_graph(_, _, _, _, _)
run_graph(node, s, cls, gen, path) ==
    LET after == run_node(node, s, cls, gen)
        visited == Append(path, [node |-> node, stage |-> after.stage,
                                 response |-> after.response])
        next == next_node(node, after)
    IN  IF next = "END" THEN [state |-> after, path |-> visited]
        ELSE run_graph(next, after, cls, gen, visited)

\* graph.invoke(s)
graph_invoke(s, cls, gen) ==
    run_graph("router", [s EXCEPT !.llm_log = <<>>], cls, gen, <<>>)

(***************************************************************************)
(* run_conversation: the greeting turn, then one loop iteration per input. *)
(* pc is the position in run_conversation; last records the operation     *)
(* performed last (its input, the state it started from and the nodes the  *)
(* graph visited); round_owner is the domain node that opened the detail   *)
(* round that is pending, if any.  agent is the MedicalVoiceAgent object   *)
(* of main.py; run_conversation constructs none.                           *)
(***************************************************************************)
\* what get_user_input hands to the loop
TURN_INPUTS ==
    {<<"1">>, <<"2">>, <<"3">>, <<"e","m","e","r","g","e","n","c","y">>, <<"m","y"," ","h","e","a","d"," ","h","u","r","t","s">>, <<"h","e","l","l","o">>,
     <<"b","y","e">>, <<"q","u","i","t">>, <<" ","E","x","i","t"," ">>, <<>>, <<" "," ">>}

\* the classification outcomes drawn in a conversation: one per parse result
TurnClassifyOutcomes ==
    {[ok |-> TRUE, content |-> t] :
        t \in {<<"s","y","m","p","t","o","m","_","c","h","e","c","k">>, <<" ","M","e","d","i","c","a","t","i","o","n","_","R","e","m","i","n","d","e","r","\n">>, <<"g","e","n","e","r","a","l","_","h","e","a","l","t","h">>,
               <<"e","m","e","r","g","e","n","c","y">>,
               <<"I"," ","a","m"," ","n","o","t"," ","s","u","r","e">>}} \cup {LLM_RAISES}

NodesOf(path) == {path[i].node : i \in 1..Len(path)}

owner_after(owner, pre, res) ==
    IF res.state.stage # "waiting_for_details" THEN ""
    ELSE IF pre.stage # "waiting_for_details"
         THEN CHOOSE n \in DOMAIN_NODES : n \in NodesOf(res.path)
         ELSE owner

Init ==
    /\ state = create_initial_state(<<>>, DEFAULT_PROFILE, TRUE)
    /\ pc = "start"
    /\ last = [op |-> "none", input |-> <<>>, pre |-> state, path |-> <<>>,
               owner |-> ""]
    /\ round_owner = ""
    /\ turns = 0
    /\ agent = <<>>
    /\ ui = <<>>

\* state = graph.invoke(state) on the initial state
StartConversation ==
    /\ pc = "start"
    /\ \E cls \in TurnClassifyOutcomes, gen \in GenerateOutcomes :
          LET res == graph_invoke(state, cls, gen)
          IN  /\ state' = res.state
              /\ last' = [op |-> "greet", input |-> state.user_input,
                          pre |-> state, path |-> res.path,
                          owner |-> round_owner]
    /\ pc' = "loop"
    /\ UNCHANGED <<round_owner, turns, agent, ui>>

\* `if not user_input or user_input.strip() == "": continue`
SkipEmptyInput ==
    /\ pc = "loop"
    /\ \E u \in TURN_INPUTS :
          /\ Strip(u) = <<>>
          /\ last' = [op |-> "skip", input |-> u, pre |-> state, path |-> <<>>,
               owner |-> round_owner]
    /\ UNCHANGED <<state, pc, round_owner, turns, agent, ui>>

\* `if user_input.lower().strip() in ["exit", "quit"]: break`
BreakOnExitCommand ==
    /\ pc = "loop"
    /\ \E u \in TURN_INPUTS :
          /\ Strip(u) # <<>>
          /\ Strip(Lower(u)) \in LOOP_EXIT_WORDS
          /\ last' = [op |-> "break", input |-> u, pre |-> state, path |-> <<>>,
               owner |-> round_owner]
    /\ pc' = "done"
    /\ UNCHANGED <<state, round_owner, turns, agent, ui>>

\* state["user_input"] = user_input; state = graph.invoke(state);
\* `if state.get("stage") == "exit": break`
ConversationTurn ==
    /\ pc = "loop"
    /\ turns < MaxTurns
    /\ \E u \in TURN_INPUTS, cls \in TurnClassifyOutcomes, gen \in GenerateOutcomes :
          /\ Strip(u) # <<>>
          /\ Strip(Lower(u)) \notin LOOP_EXIT_WORDS
          /\ LET pre == [state EXCEPT !.user_input = u]
                 res == graph_invoke(pre, cls, gen)
             IN  /\ state' = res.state
                 /\ last' = [op |-> "turn", input |-> u, pre |-> pre,
                             path |-> res.path, owner |-> round_owner]
                 /\ round_owner' = owner_after(round_owner, pre, res)
                 /\ pc' = IF res.state.stage = "exit" THEN "done" ELSE "loop"
    /\ turns' = turns + 1
    /\ UNCHANGED <<agent, ui>>

Next ==
    \/ StartConversation
    \/ SkipEmptyInput
    \/ BreakOnExitCommand
    \/ ConversationTurn

Spec == Init /\ [][Next]_vars

(***************************************************************************)
(* The classifier on its own: handle_user_choice applied to a state that   *)
(* waits for a choice, for every utterance of up to MaxWords words.        *)
(***************************************************************************)
VOCABULARY ==
    {<<"1">>, <<"t","w","o">>, <<"T","H","I","R","D">>, <<"4">>, <<"e","m","e","r","g","e","n","c","y">>, <<"c","h","e","s","t"," ","p","a","i","n">>,
     <<"f","e","v","e","r">>, <<"p","i","l","l">>, <<"d","i","e","t">>, <<"h","e","l","l","o">>, <<"s","o","m","e","o","n","e">>, <<"b","y","e">>}

RAW_UTTERANCES == {<<" ","E","x","i","t"," ">>, <<"Q","U","I","T">>, <<"s","t","o","p">>, <<"g","o","o","d","b","y","e">>}

RECURSIVE Phrases(_)
Phrases(n) ==
    IF n <= 1 THEN VOCABULARY
    ELSE {p \o <<" ">> \o w : p \in Phrases(n - 1), w \in VOCABULARY}

Utterances == UNION {Phrases(n) : n \in 1..MaxWords} \cup RAW_UTTERANCES

PRIOR_INTENTS == {"", "general_health", "unclear"}

InitClassify ==
    /\ \E u \in Utterances, i \in PRIOR_INTENTS :
          state = [create_initial_state(u, DEFAULT_PROFILE, FALSE)
                      EXCEPT !.intent = i]
    /\ pc = "classify"
    /\ last = [op |-> "none", input |-> state.user_input, pre |-> state,
               path |-> <<>>, owner |-> ""]
    /\ round_owner = ""
    /\ turns = 0
    /\ agent = <<>>
    /\ ui = <<>>

ClassifyUtterance ==
    /\ pc = "classify"
    /\ \E cls \in ClassifyOutcomes :
          /\ state' = handle_user_choice(state, cls)
          /\ last' = [op |-> "classify", input |-> state.user_input,
                      pre |-> state, path |-> <<>>, owner |-> round_owner,
                      llm_text |-> IF state'.llm_log # <<>> /\ cls.ok
                                   THEN cls.content ELSE <<>>]
    /\ pc' = "classified"
    /\ UNCHANGED <<round_owner, turns, agent, ui>>

SpecClassify == InitClassify /\ [][ClassifyUtterance]_vars

(***************************************************************************)
(* A caller that builds a state with create_initial_state and invokes the  *)
(* compiled graph on it once, as show_greeting does: any user input, with  *)
(* or without the greeting, with an empty or a filled profile.             *)
(***************************************************************************)
AGENT_PROFILE ==
    [medications |-> <<"Metformin 500mg - twice daily">>,
     conditions  |-> <<"Type 2 Diabetes">>]

PROFILES == {DEFAULT_PROFILE, AGENT_PROFILE}

INVOKE_INPUTS == Utterances \cup {<<>>}

InitInvoke ==
    /\ \E u \in INVOKE_INPUTS, p \in PROFILES, first \in BOOLEAN :
          state = create_initial_state(u, p, first)
    /\ pc = "invoke"
    /\ last = [op |-> "none", input |-> state.user_input, pre |-> state,
               path |-> <<>>, owner |-> ""]
    /\ round_owner = ""
    /\ turns = 0
    /\ agent = <<>>
    /\ ui = <<>>

InvokeGraph ==
    /\ pc = "invoke"
    /\ \E cls \in TurnClassifyOutcomes, gen \in GenerateOutcomes :
          LET res == graph_invoke(state, cls, gen)
          IN  /\ state' = res.state
              /\ last' = [op |-> "invoke", input |-> state.user_input,
                          pre |-> state, path |-> res.path, owner |-> ""]
    /\ pc' = "returned"
    /\ UNCHANGED <<round_owner, turns, agent, ui>>

SpecInvoke == InitInvoke /\ [][InvokeGraph]_vars

(***************************************************************************)
(* Vocabulary of the properties.                                           *)
(***************************************************************************)
Norm(u) == Strip(Lower(u))

IsTurn == last.op = "turn"

IsClassified == last.op = "classify"

Visited == NodesOf(last.path)

\* the llm.invoke calls of the last graph invocation, by kind and outcome
Called(log, kind) == \E i \in 1..Len(log) : log[i].call = kind

CalledWith(log, kind, ok) ==
    \E i \in 1..Len(log) : log[i] = [call |-> kind, ok |-> ok]

\* the node visited under the name n reported stage st
Reported(path, n, st) ==
    \E i \in 1..Len(path) : path[i].node = n /\ path[i].stage = st

PromptOf(node) ==
    CASE node = "symptom" -> SYMPTOM_PROMPT
      [] node = "medication" -> MEDICATION_PROMPT
      [] node = "health" -> HEALTH_PROMPT

FallbackOf(node) ==
    CASE node = "symptom" -> SYMPTOM_FALLBACK
      [] node = "medication" -> MEDICATION_FALLBACK
      [] node = "health" -> HEALTH_FALLBACK

\* the selection tokens and the intent of menu option k, as the menu states them
MenuTokens(k) ==
    CASE k = 1 -> {<<"1">>, <<"f","i","r","s","t">>, <<"o","n","e">>}
      [] k = 2 -> {<<"2">>, <<"s","e","c","o","n","d">>, <<"t","w","o">>}
      [] k = 3 -> {<<"3">>, <<"t","h","i","r","d">>, <<"t","h","r","e","e">>}
      [] k = 4 -> {<<"4">>, <<"f","o","u","r","t","h">>, <<"f","o","u","r">>}

MenuIntent(k) ==
    CASE k = 1 -> "symptom_check"
      [] k = 2 -> "medication_reminder"
      [] k = 3 -> "general_health"
      [] k = 4 -> "emergency"

HasMenuToken(k, u) == ContainsAny(Norm(u), MenuTokens(k))

EMERGENCY_PHRASES ==
    {<<"e","m","e","r","g","e","n","c","y">>, <<"c","h","e","s","t"," ","p","a","i","n">>, <<"c","a","n","'","t"," ","b","r","e","a","t","h","e">>, <<"b","l","e","e","d","i","n","g">>}

HasEmergencyPhrase(u) == ContainsAny(Norm(u), EMERGENCY_PHRASES)

\* the options an utterance names, the word "emergency" naming option 4
OptionsNamed(u) ==
    {k \in 1..4 : HasMenuToken(k, u)}
        \cup (IF Contains(Norm(u), <<"e","m","e","r","g","e","n","c","y">>) THEN {4} ELSE {})

Lowest(S) == CHOOSE k \in S : \A j \in S : k <= j

(***************************************************************************)
(* C1 (as claimed): from waiting_for_choice with an empty history, "1"     *)
(* yields waiting_for_details, the symptom prompt and no history entry;    *)
(* the next turn, when the generator succeeds, yields stage complete and   *)
(* a history of exactly one entry (the utterance, the generated reply).    *)
(***************************************************************************)
FirstTurnIsOne ==
    /\ pc = "loop"
    /\ state.stage = "waiting_for_choice"
    /\ state.conversation_history = <<>>
    /\ last'.op = "turn"
    /\ last'.input = <<"1">>

RoundOpenedByOne ==
    /\ IsTurn
    /\ last.input = <<"1">>
    /\ last.pre.stage = "waiting_for_choice"
    /\ last.pre.conversation_history = <<>>
    /\ state.stage = "waiting_for_details"

SecondTurnGenerates ==
    /\ RoundOpenedByOne
    /\ last'.op = "turn"
    /\ CalledWith(state'.llm_log, "generate", TRUE)

FirstTurnResult ==
    /\ state'.stage = "waiting_for_details"
    /\ state'.response = SYMPTOM_PROMPT
    /\ state'.conversation_history = <<>>
    /\ state'.llm_log = <<>>

OneEntryAppended ==
    /\ state'.response \in GEN_REPLIES
    /\ state'.conversation_history =
          <<[user |-> last'.input, assistant |-> state'.response]>>

C2_DetailRoundStaysWithOwner ==
    (IsTurn /\ last.pre.stage = "waiting_for_details") =>
        /\ last.owner \in DOMAIN_NODES
        /\ Len(last.path) = 3
        /\ last.path[1].node = "router"
        /\ last.path[2].node = last.owner
        /\ last.path[3].node = "route_back"
        /\ ~Called(state.llm_log, "classify")
        /\ \/ state.stage = "waiting_for_details" /\ round_owner = last.owner
           \/ last.path[2].stage = "complete"

C2_Witness ==
    /\ IsTurn
    /\ last.pre.stage = "waiting_for_details"
    /\ last.pre.response = MEDICATION_FALLBACK
    /\ last.input = <<"e","m","e","r","g","e","n","c","y">>
    /\ last.path[2].node = "medication"

(***************************************************************************)
(* C3: when the generator raises in a detail-round turn, the turn ends     *)
(* normally, the stage is still waiting_for_details, the reply is the      *)
(* handler's fallback text and the history is unchanged.                   *)
(***************************************************************************)
C3_GeneratorFailureKeepsRound ==
    (/\ IsTurn
     /\ last.pre.stage = "waiting_for_details"
     /\ CalledWith(state.llm_log, "generate", FALSE)) =>
        /\ last.owner \in DOMAIN_NODES
        /\ state.stage = "waiting_for_details"
        /\ state.response = FallbackOf(last.owner)
        /\ state.conversation_history = last.pre.conversation_history
        /\ pc = "loop"

C3_Witness ==
    /\ IsTurn
    /\ last.pre.stage = "waiting_for_details"
    /\ CalledWith(state.llm_log, "generate", FALSE)
    /\ last.owner = "health"
    /\ state.response = HEALTH_FALLBACK

(***************************************************************************)
(* C4 (as claimed): a turn whose classified intent is emergency returns    *)
(* the emergency safety message as its reply.                              *)
(***************************************************************************)
C4_EmergencyReplyReturned ==
    (IsTurn /\ "choice_handler" \in Visited /\ state.intent = "emergency") =>
        state.response = EMERGENCY_TEXT

(***************************************************************************)
(* C5: a turn whose intent is emergency makes no generator call, makes no  *)
(* LLM call at all when a deterministic rule gave the intent, and ends in  *)
(* stage exit, after which run_conversation has left its loop.             *)
(***************************************************************************)
C5_EmergencyEndsSession ==
    (IsTurn /\ "choice_handler" \in Visited /\ state.intent = "emergency") =>
        /\ "emergency" \in Visited
        /\ ~Called(state.llm_log, "generate")
        /\ (choice_rule(Norm(last.input)) # "llm" => state.llm_log = <<>>)
        /\ state.stage = "exit"
        /\ pc = "done"

C5_Witness ==
    /\ IsTurn
    /\ last.input = <<"e","m","e","r","g","e","n","c","y">>
    /\ state.intent = "emergency"
    /\ "emergency" \in Visited
    /\ pc = "done"

(***************************************************************************)
(* C6 (as claimed): the classifier gives emergency to every utterance that *)
(* holds "chest pain" and a symptom keyword and is no exit keyword.        *)
(***************************************************************************)
C6_ChestPainIsEmergency ==
    (/\ IsClassified
     /\ Contains(Norm(last.input), <<"c","h","e","s","t"," ","p","a","i","n">>)
     /\ ContainsAny(Norm(last.input), SYMPTOM_WORDS)
     /\ Norm(last.input) \notin EXIT_WORDS) =>
        state.intent = "emergency"

(***************************************************************************)
(* C7 (as claimed): a turn that starts in waiting_for_choice,              *)
(* waiting_for_details or complete, with an utterance that holds the word  *)
(* "emergency" and no token of option 1, 2 or 3, has its reply produced by *)
(* the emergency handler.                                                  *)
(***************************************************************************)
C7_EmergencyFromAnyStage ==
    (/\ IsTurn
     /\ last.pre.stage \in {"waiting_for_choice", "waiting_for_details", "complete"}
     /\ Contains(Norm(last.input), <<"e","m","e","r","g","e","n","c","y">>)
     /\ \A k \in 1..3 : ~HasMenuToken(k, last.input)) =>
        \E i \in 1..Len(last.path) :
            /\ last.path[i].node = "emergency"
            /\ last.path[i].response = EMERGENCY_TEXT

(***************************************************************************)
(* C8 (as claimed): a turn whose utterance is exactly "quit" or "exit"     *)
(* ends with stage exit, whatever the stage it starts in, and invokes no   *)
(* LLM and no response handler.                                            *)
(***************************************************************************)
C8_ExitKeywordShortCircuit ==
    (last.op \in {"turn", "break"} /\ last.input \in {<<"q","u","i","t">>, <<"e","x","i","t">>}) =>
        /\ state.stage = "exit"
        /\ (last.op = "turn" => state.llm_log = <<>>)
        /\ Visited \cap AGENT_NODES = {}

(***************************************************************************)
(* C9 (as claimed): an utterance that holds a selection token of option k  *)
(* and no emergency phrase is classified as the intent of option k.        *)
(***************************************************************************)
C9_TokenDecidesIntent ==
    IsClassified =>
        \A k \in 1..4 :
            (HasMenuToken(k, last.input) /\ ~HasEmergencyPhrase(last.input)) =>
                state.intent = MenuIntent(k)

(***************************************************************************)
(* C9 (amended): an utterance that holds a selection token of option k, no *)
(* token of a lower-numbered option and no emergency phrase is classified  *)
(* as the intent of option k.                                              *)
(***************************************************************************)
C9_LowestTokenDecidesIntent ==
    IsClassified =>
        \A k \in 1..4 :
            (/\ HasMenuToken(k, last.input)
             /\ \A j \in 1..(k - 1) : ~HasMenuToken(j, last.input)
             /\ ~HasEmergencyPhrase(last.input)) =>
                state.intent = MenuIntent(k)

C9_Witness ==
    /\ IsClassified
    /\ HasMenuToken(3, last.input)
    /\ HasMenuToken(4, last.input)
    /\ ~HasMenuToken(1, last.input)
    /\ ~HasMenuToken(2, last.input)
    /\ ~HasEmergencyPhrase(last.input)
    /\ state.intent = "general_health"

(***************************************************************************)
(* C10: an utterance, not an exit keyword, that names several options is   *)
(* classified as the lowest-numbered of them; so "emergency" next to a     *)
(* token of option 1, 2 or 3 is classified as that option.                 *)
(***************************************************************************)
C10_LowestOptionWins ==
    (/\ IsClassified
     /\ Norm(last.input) \notin EXIT_WORDS
     /\ Cardinality(OptionsNamed(last.input)) >= 2) =>
        state.intent = MenuIntent(Lowest(OptionsNamed(last.input)))

C10_Witness ==
    /\ IsClassified
    /\ Contains(Norm(last.input), <<"e","m","e","r","g","e","n","c","y">>)
    /\ OptionsNamed(last.input) = {2, 4}
    /\ state.intent = "medication_reminder"

(***************************************************************************)
(* C11: a graph invocation that starts in stage greeting replies, for      *)
(* every user input, with the greeting menu, ends in waiting_for_choice,   *)
(* visits no classifier and no handler, makes no LLM call and leaves the   *)
(* intent and the conversation history as they were.                       *)
(***************************************************************************)
IsInvoke == last.op = "invoke"

C12_GreetingIntentIsWaiting ==
    (IsInvoke /\ last.pre.stage = "greeting" /\ last.input = <<>>) =>
        (state.intent = "waiting" /\ state.intent # "unclear")

\* the utterance matches one of the classifier's deterministic rules
MatchesDeterministicRule(u) ==
    \/ Norm(u) \in EXIT_WORDS
    \/ OptionsNamed(u) # {}
    \/ ContainsAny(Norm(u), SYMPTOM_WORDS)
    \/ ContainsAny(Norm(u), MEDICATION_WORDS)
    \/ ContainsAny(Norm(u), HEALTH_WORDS)

NodeNames(path) == [i \in 1..Len(path) |-> path[i].node]

(***************************************************************************)
(* C13: in waiting_for_choice, a turn whose utterance matches no           *)
(* deterministic rule and whose fallback classification is unclear ends in *)
(* waiting_for_choice with the unclear handler's menu text as reply and    *)
(* without a generator call; repeated, it gives the same stage and reply.  *)
(***************************************************************************)
UnclearTurn ==
    /\ IsTurn
    /\ last.pre.stage = "waiting_for_choice"
    /\ ~MatchesDeterministicRule(last.input)
    /\ state.intent = "unclear"

C13_MenuRedisplayIdempotent ==
    UnclearTurn =>
        /\ state.stage = "waiting_for_choice"
        /\ state.response = UNCLEAR_TEXT
        /\ ~Called(state.llm_log, "generate")
        /\ (last.pre.intent = "unclear" /\ last.pre.response = UNCLEAR_TEXT) =>
              (state.stage = last.pre.stage /\ state.response = last.pre.response)

C13_Witness ==
    /\ UnclearTurn
    /\ last.input = <<"h","e","l","l","o">>
    /\ last.pre.intent = "unclear"
    /\ last.pre.response = UNCLEAR_TEXT
    /\ Len(state.conversation_history) = 2

(***************************************************************************)
(* C14: when the classification call raises, the intent is unclear and     *)
(* the turn completes through the unclear handler; the conversation goes   *)
(* on.                                                                     *)
(***************************************************************************)
C14_ClassifierFailureIsUnclear ==
    (IsTurn /\ CalledWith(state.llm_log, "classify", FALSE)) =>
        /\ state.intent = "unclear"
        /\ NodeNames(last.path) = <<"router", "choice_handler", "unclear", "route_back">>
        /\ state.response = UNCLEAR_TEXT
        /\ state.stage = "waiting_for_choice"
        /\ pc = "loop"

C14_Witness ==
    /\ IsTurn
    /\ CalledWith(state.llm_log, "classify", FALSE)
    /\ last.input = <<"h","e","l","l","o">>
    /\ state.response = UNCLEAR_TEXT

\* the four categories the classification prompt names
CATEGORIES == {"symptom_check", "medication_reminder", "general_health", "emergency"}

CategoryName(c) ==
    CASE c = "symptom_check" -> <<"s","y","m","p","t","o","m","_","c","h","e","c","k">>
      [] c = "medication_reminder" -> <<"m","e","d","i","c","a","t","i","o","n","_","r","e","m","i","n","d","e","r">>
      [] c = "general_health" -> <<"g","e","n","e","r","a","l","_","h","e","a","l","t","h">>
      [] c = "emergency" -> <<"e","m","e","r","g","e","n","c","y">>

\* the words the parser searches the returned text for, by category
CategoryWords(c) ==
    CASE c = "symptom_check" -> {<<"s","y","m","p","t","o","m">>}
      [] c = "medication_reminder" -> {<<"m","e","d","i","c","a","t","i","o","n">>}
      [] c = "general_health" -> {<<"g","e","n","e","r","a","l">>, <<"h","e","a","l","t","h">>}
      [] c = "emergency" -> {<<"e","m","e","r","g","e","n","c","y">>}

NamesIn(text) == {c \in CATEGORIES : Contains(Norm(text), CategoryName(c))}

WordsIn(text) == {c \in CATEGORIES : ContainsAny(Norm(text), CategoryWords(c))}

\* the fallback classification was made and the LLM returned a text
LlmAnswered == IsClassified /\ CalledWith(state.llm_log, "classify", TRUE)

(***************************************************************************)
(* C15 (as claimed): a returned text that holds the name of exactly one    *)
(* category gives that category as intent, and a text that holds no        *)
(* category name gives unclear.                                            *)
(***************************************************************************)
C15_CategoryNameDecides ==
    LlmAnswered =>
        /\ \A c \in CATEGORIES : NamesIn(last.llm_text) = {c} => state.intent = c
        /\ NamesIn(last.llm_text) = {} => state.intent = "unclear"

(***************************************************************************)
(* C15 (amended): a returned text that holds the name of exactly one       *)
(* category, and none of the words the parser searches for on behalf of    *)
(* another category (symptom; medication; general or health; emergency),   *)
(* gives that category as intent; a text that holds none of these words    *)
(* gives unclear.                                                          *)
(***************************************************************************)
C15_CategoryWordsDecide ==
    LlmAnswered =>
        /\ \A c \in CATEGORIES :
              (NamesIn(last.llm_text) = {c} /\ WordsIn(last.llm_text) \subseteq {c})
                  => state.intent = c
        /\ WordsIn(last.llm_text) = {} => state.intent = "unclear"

C15_Witness ==
    /\ LlmAnswered
    /\ last.llm_text = <<"T","h","e"," ","c","a","t","e","g","o","r","y"," ","i","s"," ","e","m","e","r","g","e","n","c","y",".">>
    /\ state.intent = "emergency"

(***************************************************************************)
(* C16: the classifier calls the external model exactly when the utterance *)
(* matches none of the deterministic rules, and then once.                 *)
(***************************************************************************)
C16_LlmOnlyAsFallback ==
    IsClassified =>
        /\ Called(state.llm_log, "classify") <=> ~MatchesDeterministicRule(last.input)
        /\ ~Called(state.llm_log, "generate")
        /\ Len(state.llm_log) <= 1

C16_Witness ==
    /\ IsClassified
    /\ last.input = <<"h","e","l","l","o"," ","h","e","l","l","o">>
    /\ ~MatchesDeterministicRule(last.input)
    /\ Len(state.llm_log) = 1

(***************************************************************************)
(* C17: whatever the utterance and the outcome of the external call, the   *)
(* classifier leaves one of the six intent labels in the state, and        *)
(* route_from_choice maps it to the one handler of that label.             *)
(***************************************************************************)
INTENT_LABELS ==
    {"symptom_check", "medication_reminder", "general_health", "emergency",
     "unclear", "exit"}

HandlerOf(intent) ==
    CASE intent = "symptom_check" -> "symptom"
      [] intent = "medication_reminder" -> "medication"
      [] intent = "general_health" -> "health"
      [] intent = "emergency" -> "emergency"
      [] intent = "unclear" -> "unclear"
      [] intent = "exit" -> "exit"

C17_OneIntentOneHandler ==
    IsClassified =>
        /\ state.intent \in INTENT_LABELS
        /\ route_from_choice(state) = HandlerOf(state.intent)

C17_Witness ==
    /\ LlmAnswered
    /\ last.llm_text = <<"I"," ","a","m"," ","n","o","t"," ","s","u","r","e">>
    /\ last.pre.intent = "general_health"
    /\ state.intent = "unclear"
    /\ route_from_choice(state) = "unclear"

(***************************************************************************)
(* C18: for an utterance that is no exit keyword and names no option, the  *)
(* keyword buckets are tried in the order symptom, medication, general     *)
(* health, and the first bucket with a matching word gives the intent.     *)
(***************************************************************************)
BucketWords(b) ==
    CASE b = 1 -> SYMPTOM_WORDS
      [] b = 2 -> MEDICATION_WORDS
      [] b = 3 -> HEALTH_WORDS

BucketIntent(b) ==
    CASE b = 1 -> "symptom_check"
      [] b = 2 -> "medication_reminder"
      [] b = 3 -> "general_health"

BucketsMatched(u) == {b \in 1..3 : ContainsAny(Norm(u), BucketWords(b))}

C18_FirstBucketWins ==
    (/\ IsClassified
     /\ Norm(last.input) \notin EXIT_WORDS
     /\ OptionsNamed(last.input) = {}
     /\ BucketsMatched(last.input) # {}) =>
        state.intent = BucketIntent(Lowest(BucketsMatched(last.input)))

C18_Witness ==
    /\ IsClassified
    /\ last.input = <<"d","i","e","t"," ","p","i","l","l">>
    /\ BucketsMatched(last.input) = {2, 3}
    /\ state.intent = "medication_reminder"

(***************************************************************************)
(* C19: a domain handler invoked in a turn that did not start in           *)
(* waiting_for_details replies with its own clarifying prompt, sets the    *)
(* stage to waiting_for_details, calls no generator and appends nothing to *)
(* the history.                                                            *)
(***************************************************************************)
FreshEntry == IsTurn /\ last.pre.stage # "waiting_for_details"

C19_FreshEntryAsksForDetails ==
    FreshEntry =>
        \A n \in DOMAIN_NODES :
            n \in Visited =>
                /\ state.response = PromptOf(n)
                /\ state.stage = "waiting_for_details"
                /\ ~Called(state.llm_log, "generate")
                /\ state.conversation_history = last.pre.conversation_history

C19_Witness ==
    /\ FreshEntry
    /\ "medication" \in Visited
    /\ last.pre.conversation_history # <<>>
    /\ state.response = MEDICATION_PROMPT

(***************************************************************************)
(* C20: after a completed detail round the next turn is a fresh choice:    *)
(* the classifier runs on the new utterance and the handler is the one of  *)
(* the new intent, whatever the intent of the finished round.              *)
(***************************************************************************)
\* the state the turn started from is the one a completed detail round left
AfterCompletedRound ==
    /\ IsTurn
    /\ last.pre.response \in GEN_REPLIES
    /\ last.pre.conversation_history # <<>>

\* the intent a deterministic rule gives the utterance
RuleIntent(u) ==
    IF Norm(u) \in EXIT_WORDS THEN "exit"
    ELSE IF OptionsNamed(u) # {} THEN MenuIntent(Lowest(OptionsNamed(u)))
    ELSE BucketIntent(Lowest(BucketsMatched(u)))

C20_CompletedRoundStartsAfresh ==
    AfterCompletedRound =>
        /\ last.pre.stage = "waiting_for_choice"
        /\ Len(last.path) >= 3
        /\ last.path[2].node = "choice_handler"
        /\ last.path[3].node = HandlerOf(state.intent)
        /\ MatchesDeterministicRule(last.input) => state.intent = RuleIntent(last.input)
        /\ ~MatchesDeterministicRule(last.input) => Called(state.llm_log, "classify")

C20_Witness ==
    /\ AfterCompletedRound
    /\ last.pre.intent = "symptom_check"
    /\ last.input = <<"2">>
    /\ state.intent = "medication_reminder"
    /\ last.path[3].node = "medication"
    /\ state.response = MEDICATION_PROMPT

(***************************************************************************)
(* The conversation of run_conversation followed by a caller that hands    *)
(* the state of a session that ended in stage exit to the compiled graph   *)
(* again, with a new user input each time.                                 *)
(***************************************************************************)
\* state["user_input"] = user_input; state = graph.invoke(state), on a state
\* whose stage is exit
Reinvoked(u, pre, res) ==
    /\ state' = res.state
    /\ last' = [op |-> "reinvoke", input |-> u, pre |-> pre,
                path |-> res.path, owner |-> round_owner]

InvokeAfterExit ==
    /\ pc = "done"
    /\ state.stage = "exit"
    /\ \E u \in TURN_INPUTS, cls \in TurnClassifyOutcomes, gen \in GenerateOutcomes :
          Reinvoked(u, [state EXCEPT !.user_input = u],
                    graph_invoke([state EXCEPT !.user_input = u], cls, gen))
    /\ UNCHANGED <<pc, round_owner, turns, agent, ui>>

NextAfterExit ==
    \/ Next
    \/ InvokeAfterExit

SpecAfterExit == Init /\ [][NextAfterExit]_vars

\* C21: stage exit is absorbing.  From a state whose stage is exit the loop
\* of run_conversation has ended and takes no further step; the only step
\* left is a new invocation of the graph on that state, and, whatever the
\* user input and the LLM outcomes, it visits the router and the exit node
\* only (no classifier, no handler), calls the LLM not at all, and leaves
\* the stage at exit and the history as it was.
C21_ExitIsAbsorbing ==
    [][state.stage = "exit" =>
          /\ pc = "done"
          /\ pc' = "done"
          /\ last'.op = "reinvoke"
          /\ NodeNames(last'.path) = <<"router", "exit">>
          /\ state'.llm_log = <<>>
          /\ state'.stage = "exit"
          /\ state'.conversation_history = state.conversation_history]_vars

\* the graph was invoked with the selection "1" on a session that had ended
\* in stage exit with a history entry
C21_Witness ==
    /\ last.op = "reinvoke"
    /\ last.input = <<"1">>
    /\ last.pre.stage = "exit"
    /\ last.pre.conversation_history # <<>>
    /\ state.stage = "exit"

(***************************************************************************)
(* A caller that invokes the compiled graph once on a state whose stage is *)
(* none of the values the nodes of agents1.py write or test: the stage     *)
(* names the other callers of this repository use for themselves.          *)
(***************************************************************************)
\* the values of state["stage"] that agents1.py writes or tests
STAGES ==
    {"greeting", "waiting_for_choice", "waiting_for_details", "processing",
     "complete", "exit"}

\* "asking_need" and "followup" are app_ui.py's conversation stages, "error"
\* is the stage process_voice_input reports
UNKNOWN_STAGES == {"asking_need", "followup", "error"}

InitUnknownStage ==
    /\ \E u \in Utterances, st \in UNKNOWN_STAGES :
          state = [create_initial_state(u, DEFAULT_PROFILE, FALSE)
                      EXCEPT !.stage = st]
    /\ pc = "invoke"
    /\ last = [op |-> "none", input |-> state.user_input, pre |-> state,
               path |-> <<>>, owner |-> ""]
    /\ round_owner = ""
    /\ turns = 0
    /\ agent = <<>>
    /\ ui = <<>>

SpecUnknownStage == InitUnknownStage /\ [][InvokeGraph]_vars

\* C22: a graph invocation on a state whose stage is outside the defined
\* enumeration is rejected: the utterance is not classified, no handler
\* runs and no reply is produced.
C22_UnknownStageRejected ==
    (IsInvoke /\ last.pre.stage \notin STAGES) =>
        /\ Visited \cap ({"choice_handler"} \cup AGENT_NODES) = {}
        /\ state.llm_log = <<>>
        /\ state.response = last.pre.response

(***************************************************************************)
(* The loop of run_conversation with the turns told apart by the stage     *)
(* they start in and, in a detail round, by the outcome of the generator.  *)
(* Turns that start a round are counted (MaxRounds); the turns of a detail *)
(* round are not, so a round may see any number of generator failures.     *)
(* Fairness: the user keeps answering and the generator succeeds on some   *)
(* turn, that is the successful detail turn is not postponed forever.      *)
(***************************************************************************)
\* one pass of the loop body with input u: the graph turn and the exit test
Turned(u, pre, res) ==
    /\ state' = res.state
    /\ last' = [op |-> "turn", input |-> u, pre |-> pre,
                path |-> res.path, owner |-> round_owner]
    /\ round_owner' = owner_after(round_owner, pre, res)
    /\ pc' = IF res.state.stage = "exit" THEN "done" ELSE "loop"

Turn(u, cls, gen) ==
    /\ pc = "loop"
    /\ Strip(u) # <<>>
    /\ Strip(Lower(u)) \notin LOOP_EXIT_WORDS
    /\ Turned(u, [state EXCEPT !.user_input = u],
              graph_invoke([state EXCEPT !.user_input = u], cls, gen))
    /\ UNCHANGED <<agent, ui>>

ChoiceTurn ==
    /\ state.stage # "waiting_for_details"
    /\ turns < MaxRounds
    /\ \E u \in TURN_INPUTS, cls \in TurnClassifyOutcomes, gen \in GenerateOutcomes :
          Turn(u, cls, gen)
    /\ turns' = turns + 1

\* what the user answers when asked for details
DETAIL_INPUTS == {<<"m","y"," ","h","e","a","d"," ","h","u","r","t","s">>, <<"1">>}

\* a turn that starts in waiting_for_details is routed past choice_handler,
\* so no classification outcome is drawn for it
DetailTurnFails ==
    /\ state.stage = "waiting_for_details"
    /\ \E u \in DETAIL_INPUTS, gen \in GenerateOutcomes :
          ~gen.ok /\ Turn(u, LLM_RAISES, gen)
    /\ UNCHANGED turns

DetailTurnSucceeds ==
    /\ state.stage = "waiting_for_details"
    /\ \E u \in DETAIL_INPUTS, gen \in GenerateOutcomes :
          gen.ok /\ Turn(u, LLM_RAISES, gen)
    /\ UNCHANGED turns

NextDetailRound ==
    \/ StartConversation
    \/ SkipEmptyInput
    \/ BreakOnExitCommand
    \/ ChoiceTurn
    \/ DetailTurnFails
    \/ DetailTurnSucceeds

SpecDetailRound ==
    Init /\ [][NextDetailRound]_vars /\ WF_vars(DetailTurnSucceeds)

\* the turn performed last was a detail-round turn whose generator failed
DetailTurnFailed ==
    /\ IsTurn
    /\ last.pre.stage = "waiting_for_details"
    /\ CalledWith(state.llm_log, "generate", FALSE)

\* the turn performed last ended the detail round: its owner reported complete
RoundCompleted ==
    /\ IsTurn
    /\ last.pre.stage = "waiting_for_details"
    /\ Reported(last.path, last.owner, "complete")

\* C23: the conversation never dead-ends on generator failure.  After every
\* detail-round turn in which the generator failed the loop is still
\* running, the stage is still waiting_for_details, a further turn is
\* accepted and the router sends it to the handler that owns the round;
\* and, the generator succeeding on some later turn, a pending detail round
\* leads to its handler reporting stage complete unless the user ends the
\* conversation first.
C23_NoDeadEndOnGeneratorFailure ==
    /\ [](DetailTurnFailed =>
            /\ pc = "loop"
            /\ state.stage = "waiting_for_details"
            /\ round_owner = last.owner
            /\ route_from_router(state) = round_owner
            /\ ENABLED DetailTurnFails
            /\ ENABLED DetailTurnSucceeds)
    /\ ((pc = "loop" /\ state.stage = "waiting_for_details")
            ~> (RoundCompleted \/ pc = "done"))

\* a detail round was completed by the turn that followed a generator failure
C23_Witness ==
    /\ RoundCompleted
    /\ last.owner = "medication"
    /\ last.pre.response = MEDICATION_FALLBACK
    /\ CalledWith(state.llm_log, "generate", TRUE)
    /\ state.stage = "waiting_for_choice"

(***************************************************************************)
(* MedicalVoiceAgent (src/main.py).  agent holds the fields of the object: *)
(* current_stage, user_profile, conversation_count and voice (whether a    *)
(* voice processor was constructed).  The graph state of a call shares the *)
(* profile object with the agent, so the profile the graph ends with is    *)
(* the agent's profile after the call.  Speech output is taken to return.  *)
(***************************************************************************)
VOICE_UNAVAILABLE_TEXT == "Voice system not available. Please use text input."

REPROMPT_TEXT == "I didn't catch that. Could you please repeat?"

VOICE_ERROR_TEXT == "Sorry, I had trouble processing that. Please try again."

\* __init__
MedicalVoiceAgent(voice_available) ==
    [current_stage      |-> "greeting",
     user_profile       |-> AGENT_PROFILE,
     conversation_count |-> 0,
     voice              |-> voice_available]

\* the element of a one-element set; {e : x \in {d}} computes d once and
\* names its value x, as an assignment to a local variable does
TheOne(S) == CHOOSE v \in S : TRUE

\* show_greeting: the compiled graph on a fresh greeting state
show_greeting(a, cls, gen) ==
    TheOne({[agent  |-> [a EXCEPT !.current_stage = result.state.stage,
                                  !.user_profile = result.state.user_profile],
             built  |-> create_initial_state(<<>>, a.user_profile, TRUE),
             state  |-> result.state,
             path   |-> result.path,
             raised |-> FALSE,
             response |-> result.state.response] :
            result \in {graph_invoke(create_initial_state(<<>>, a.user_profile, TRUE),
                                     cls, gen)}})

(***************************************************************************)
(* The per-turn mini-graph of process_user_choice: entry point              *)
(* choice_handler, route_from_choice mapped to the five agent nodes, and   *)
(* route_after_agent mapped through {"end": END} after each of them.  The  *)
(* answers "exit" of route_from_choice and "repeat", "route", "exit" of    *)
(* route_after_agent are no keys of these maps.  What the run does with    *)
(* such an answer is LangGraph's lookup in the map, which is not part of   *)
(* this repository: it raises KeyError; the model also admits a run that   *)
(* ends at that node.                                                      *)
(***************************************************************************)
UNMAPPED_ANSWER == {"raise", "end"}

\* the keys of the map given for choice_handler
MINI_CHOICE_KEYS == {"symptom", "medication", "health", "emergency", "unclear"}

\* the keys of the map given for each agent node
MINI_AGENT_KEYS == {"end"}

PathEntry(node, s) == [node |-> node, stage |-> s.stage, response |-> s.response]

\* the mini-graph from the answer of route_from_choice on
mini_graph_route(chosen, cls, gen, unmapped) ==
    IF route_from_choice(chosen) \notin MINI_CHOICE_KEYS
    THEN [state |-> chosen, path |-> <<PathEntry("choice_handler", chosen)>>,
          raised |-> unmapped = "raise"]
    ELSE TheOne({[state  |-> answered,
                  path   |-> <<PathEntry("choice_handler", chosen),
                               PathEntry(route_from_choice(chosen), answered)>>,
                  raised |-> /\ route_after_agent(answered) \notin MINI_AGENT_KEYS
                             /\ unmapped = "raise"] :
                 answered \in {run_node(route_from_choice(chosen), chosen, cls, gen)}})

\* mini_graph.invoke(s)
mini_graph_invoke(s, cls, gen, unmapped) ==
    TheOne({mini_graph_route(chosen, cls, gen, unmapped) :
            chosen \in {handle_user_choice(s, cls)}})

\* process_user_choice from the mini-graph's result on: the fields of the
\* agent and the dict returned
choice_result(a, built, choice_state, res) ==
    [agent  |-> IF res.raised
                THEN [a EXCEPT !.user_profile = res.state.user_profile]
                ELSE [a EXCEPT !.current_stage = res.state.stage,
                               !.conversation_count = @ + 1,
                               !.user_profile = res.state.user_profile],
     built  |-> built,
     state  |-> res.state,
     path   |-> res.path,
     raised |-> res.raised,
     result |-> [response |-> res.state.response,
                 intent   |-> choice_state.intent,
                 stage    |-> res.state.stage]]

\* process_user_choice: classify directly, then run the mini-graph on the
\* state the classifier has written to
process_user_choice(a, user_input, cls1, cls2, gen, unmapped) ==
    LET built == [create_initial_state(user_input, a.user_profile, FALSE)
                     EXCEPT !.stage = "waiting_for_choice"]
    IN  TheOne({TheOne({choice_result(a, built, choice_state, res) :
                        res \in {mini_graph_invoke(choice_state, cls2, gen,
                                                   unmapped)}}) :
                choice_state \in {handle_user_choice(built, cls1)}})

\* what a call hands back when an exception leaves it
RAISED == [raised |-> TRUE]

Returned(dict) == [raised |-> FALSE, value |-> dict]

process_text_input(a, user_input, cls1, cls2, gen, unmapped) ==
    IF a.current_stage = "greeting"
    THEN TheOne({[agent |-> g.agent, built |-> g.built, state |-> g.state,
                  path |-> g.path,
                  result |-> Returned([response |-> g.response,
                                       intent   |-> "greeting",
                                       stage    |-> "waiting_for_choice"])] :
                 g \in {show_greeting(a, cls1, gen)}})
    ELSE TheOne({[agent |-> r.agent, built |-> r.built, state |-> r.state,
                  path |-> r.path,
                  result |-> IF r.raised THEN RAISED ELSE Returned(r.result)] :
                 r \in {process_user_choice(a, user_input, cls1, cls2, gen,
                                            unmapped)}})

\* what recording and transcription produce: a text, or an exception
HEARD_RAISES == [ok |-> FALSE, text |-> <<>>]

voice_error(a, s, path) ==
    [agent |-> a, built |-> s, state |-> s, path |-> path,
     result |-> Returned([response |-> VOICE_ERROR_TEXT, transcription |-> <<>>,
                          intent |-> "error", stage |-> "error"])]

\* `if self.current_stage == "greeting": greeting = self.show_greeting()`:
\* the agent, the graph state and the path before recording starts
greeting_first(a, s, cls, gen) ==
    IF a.current_stage = "greeting"
    THEN TheOne({[agent |-> g.agent, state |-> g.state, path |-> g.path] :
                 g \in {show_greeting(a, cls, gen)}})
    ELSE [agent |-> a, state |-> s, path |-> <<>>]

\* the dict of process_voice_input built from the dict of process_user_choice
voice_result(r, path1, heard) ==
    IF r.raised THEN voice_error(r.agent, r.state, path1 \o r.path)
    ELSE [agent |-> r.agent, built |-> r.built,
          state |-> r.state, path |-> path1 \o r.path,
          result |-> Returned([response |-> r.result.response,
                               transcription |-> heard.text,
                               intent |-> r.result.intent,
                               stage |-> r.result.stage])]

\* process_voice_input once the greeting is through: record, transcribe,
\* re-prompt on an empty transcription, process otherwise
listen(first, heard, cls1, cls2, gen, unmapped) ==
    IF ~heard.ok THEN voice_error(first.agent, first.state, first.path)
    ELSE IF Strip(heard.text) = <<>>
    THEN [agent |-> first.agent, built |-> first.state, state |-> first.state,
          path |-> first.path,
          result |-> Returned([response |-> REPROMPT_TEXT,
                               transcription |-> <<>>,
                               intent |-> "unclear",
                               stage |-> first.agent.current_stage])]
    ELSE TheOne({voice_result(r, first.path, heard) :
                 r \in {process_user_choice(first.agent, heard.text, cls1, cls2,
                                            gen, unmapped)}})

\* process_voice_input that hands every transcription on, empty or not
process_voice_input_without_empty_check(a, s, heard, cls1, cls2, gen, unmapped) ==
    IF ~a.voice
    THEN [agent |-> a, built |-> s, state |-> s, path |-> <<>>,
          result |-> Returned([response |-> VOICE_UNAVAILABLE_TEXT,
                               transcription |-> <<>>,
                               intent |-> "error", stage |-> "error"])]
    ELSE TheOne({IF ~heard.ok
                 THEN voice_error(first.agent, first.state, first.path)
                 ELSE TheOne({voice_result(r, first.path, heard) :
                              r \in {process_user_choice(first.agent, heard.text,
                                                         cls1, cls2, gen,
                                                         unmapped)}}) :
                 first \in {greeting_first(a, s, cls1, gen)}})

process_voice_input(a, s, heard, cls1, cls2, gen, unmapped) ==
    IF ~a.voice
    THEN [agent |-> a, built |-> s, state |-> s, path |-> <<>>,
          result |-> Returned([response |-> VOICE_UNAVAILABLE_TEXT,
                               transcription |-> <<>>,
                               intent |-> "error", stage |-> "error"])]
    ELSE TheOne({listen(first, heard, cls1, cls2, gen, unmapped) :
                 first \in {greeting_first(a, s, cls1, gen)}})

add_medication(a, medication) ==
    [a EXCEPT !.user_profile.medications = Append(@, medication)]

add_condition(a, condition) ==
    [a EXCEPT !.user_profile.conditions = Append(@, condition)]

\* reset_session that clears the counter only
reset_session_keeps_stage(a) == [a EXCEPT !.conversation_count = 0]

reset_session(a) == [a EXCEPT !.current_stage = "greeting", !.conversation_count = 0]

(***************************************************************************)
(* A caller of one MedicalVoiceAgent, as run_interactive_cli and the web   *)
(* UI are: it calls the methods of the agent in any order, at most         *)
(* MaxCalls processing calls.  state is the graph state of the call made   *)
(* last; last records the call, the agent before it (pre), the state the   *)
(* call built for the graph (built) and what the call handed back; the    *)
(* input of a voice call is what speech_to_text yielded.                   *)
(***************************************************************************)
\* what the user types or says
AGENT_INPUTS == {<<"1">>, <<"f","e","v","e","r">>, <<"h","e","l","l","o">>, <<"e","m","e","r","g","e","n","c","y">>, <<"b","y","e">>}

\* what speech_to_text hands back, or an exception
HeardOutcomes ==
    {[ok |-> TRUE, text |-> t] : t \in {<<"1">>, <<"b","y","e">>, <<>>, <<" "," ">>}}
        \cup {HEARD_RAISES}

\* the classification outcomes drawn for a call of the agent: an outcome
\* is drawn only for an input that reaches the LLM fallback of the
\* classifier
AgentClassifyOutcomes(user_input) ==
    IF choice_rule(Strip(Lower(user_input))) = "llm"
    THEN {[ok |-> TRUE, content |-> t] : t \in {<<"s","y","m","p","t","o","m","_","c","h","e","c","k">>, <<"e","m","e","r","g","e","n","c","y">>}}
             \cup {LLM_RAISES}
    ELSE {LLM_RAISES}

\* the generation outcomes drawn for a call of the agent
AgentGenerateOutcomes ==
    {[ok |-> TRUE, content |-> "Rest and drink fluids."],
     [ok |-> FALSE, content |-> ""]}

NEW_MEDICATIONS == {"Aspirin 75mg - once daily"}

NEW_CONDITIONS == {"Hypertension"}

\* the call returns: the fields of the agent, and what the caller gets
Returns(op, input, r) ==
    /\ agent' = r.agent
    /\ state' = r.state
    /\ last' = [op |-> op, input |-> input, pre |-> agent, path |-> r.path,
                owner |-> "", built |-> r.built, result |-> r.result]

InitAgent ==
    /\ \E v \in BOOLEAN : agent = MedicalVoiceAgent(v)
    /\ ui = <<>>
    /\ state = create_initial_state(<<>>, AGENT_PROFILE, TRUE)
    /\ pc = "agent"
    /\ last = [op |-> "none", input |-> <<>>, pre |-> agent, path |-> <<>>,
               owner |-> "", built |-> state, result |-> Returned("")]
    /\ round_owner = ""
    /\ turns = 0

ProcessTextInput ==
    /\ pc = "agent"
    /\ turns < MaxCalls
    /\ \E u \in AGENT_INPUTS, gen \in AgentGenerateOutcomes,
          unmapped \in UNMAPPED_ANSWER :
       \E cls1 \in AgentClassifyOutcomes(u), cls2 \in AgentClassifyOutcomes(u) :
       \E r \in {process_text_input(agent, u, cls1, cls2, gen, unmapped)} :
          Returns("process_text_input", u, r)
    /\ turns' = turns + 1
    /\ UNCHANGED <<pc, round_owner, ui>>

ProcessVoiceInput ==
    /\ pc = "agent"
    /\ turns < MaxCalls
    /\ \E heard \in HeardOutcomes, gen \in AgentGenerateOutcomes,
          unmapped \in UNMAPPED_ANSWER :
       \E cls1 \in AgentClassifyOutcomes(heard.text),
          cls2 \in AgentClassifyOutcomes(heard.text) :
       \E r \in {process_voice_input(agent, state, heard, cls1, cls2, gen,
                                      unmapped)} :
          Returns("process_voice_input", heard, r)
    /\ turns' = turns + 1
    /\ UNCHANGED <<pc, round_owner, ui>>

AddMedication ==
    /\ Len(agent.user_profile.medications) < MaxProfileItems
    /\ \E m \in NEW_MEDICATIONS :
          /\ agent' = add_medication(agent, m)
          /\ last' = [op |-> "add_medication", input |-> m, pre |-> agent,
                      path |-> <<>>, owner |-> "", built |-> state,
                      result |-> Returned("")]
    /\ UNCHANGED <<state, pc, round_owner, turns, ui>>

AddCondition ==
    /\ Len(agent.user_profile.conditions) < MaxProfileItems
    /\ \E c \in NEW_CONDITIONS :
          /\ agent' = add_condition(agent, c)
          /\ last' = [op |-> "add_condition", input |-> c, pre |-> agent,
                      path |-> <<>>, owner |-> "", built |-> state,
                      result |-> Returned("")]
    /\ UNCHANGED <<state, pc, round_owner, turns, ui>>

ResetSession ==
    /\ pc = "agent"
    /\ agent' = reset_session(agent)
    /\ last' = [op |-> "reset_session", input |-> <<>>, pre |-> agent,
                path |-> <<>>, owner |-> "", built |-> state,
                result |-> Returned("")]
    /\ UNCHANGED <<state, pc, round_owner, turns, ui>>

NextAgent ==
    \/ ProcessTextInput
    \/ ProcessVoiceInput
    \/ ResetSession

SpecAgent == InitAgent /\ [][NextAgent]_vars

(***************************************************************************)
(* The two programs side by side: the conversation of run_conversation,    *)
(* whose graph state carries its own profile from turn to turn, and the    *)
(* profile operations of a MedicalVoiceAgent.                              *)
(***************************************************************************)
InitProfile ==
    /\ state = create_initial_state(<<>>, DEFAULT_PROFILE, TRUE)
    /\ pc = "start"
    /\ last = [op |-> "none", input |-> <<>>, pre |-> state, path |-> <<>>,
               owner |-> ""]
    /\ round_owner = ""
    /\ turns = 0
    /\ \E v \in BOOLEAN : agent = MedicalVoiceAgent(v)
    /\ ui = <<>>

NextProfile ==
    \/ NextDetailRound
    \/ AddMedication
    \/ AddCondition

SpecProfile == InitProfile /\ [][NextProfile]_vars

\* C24: no turn of the conversation graph changes a user profile, neither
\* the one its state carries nor the agent's, whatever the stage, the
\* utterance and the LLM outcomes; the agent's profile changes only in
\* add_medication, which appends its argument to medications and leaves
\* conditions alone, and in add_condition, which appends its argument to
\* conditions and leaves medications alone.
C24_ProfileChangesOnlyByAddOperations ==
    [][/\ state'.user_profile = state.user_profile
       /\ (last'.op = "add_medication") =>
             /\ agent'.user_profile.medications =
                    Append(agent.user_profile.medications, last'.input)
             /\ agent'.user_profile.conditions = agent.user_profile.conditions
       /\ (last'.op = "add_condition") =>
             /\ agent'.user_profile.conditions =
                    Append(agent.user_profile.conditions, last'.input)
             /\ agent'.user_profile.medications = agent.user_profile.medications
       /\ (last'.op \notin {"add_medication", "add_condition"}) =>
             agent'.user_profile = agent.user_profile]_vars

\* a detail round was completed by the generator after a medication and a
\* condition had been added to the agent's profile
C24_Witness ==
    /\ last.op = "turn"
    /\ CalledWith(state.llm_log, "generate", TRUE)
    /\ agent.user_profile.medications =
           <<"Metformin 500mg - twice daily", "Aspirin 75mg - once daily">>
    /\ agent.user_profile.conditions = <<"Type 2 Diabetes", "Hypertension">>
    /\ state.user_profile = DEFAULT_PROFILE

\* C25: conversation_history is append-only across the graph turns of a
\* conversation.  In every step the history before is a prefix of the
\* history after, and every entry the step appends is a pair of the user
\* utterance of that turn and a reply produced by a node of that turn.
C25_HistoryIsAppendOnly ==
    [][/\ Len(state.conversation_history) <= Len(state'.conversation_history)
       /\ SubSeq(state'.conversation_history, 1, Len(state.conversation_history))
              = state.conversation_history
       /\ \A i \in (Len(state.conversation_history) + 1)
                       ..Len(state'.conversation_history) :
             /\ DOMAIN state'.conversation_history[i] = {"user", "assistant"}
             /\ state'.conversation_history[i].user = last'.input
             /\ \E k \in 1..Len(last'.path) :
                   last'.path[k].response =
                       state'.conversation_history[i].assistant]_vars

\* a turn appended the menu of the unclear handler to a history that held
\* a generated answer
C25_Witness ==
    /\ IsTurn
    /\ Len(last.pre.conversation_history) = 1
    /\ Len(state.conversation_history) = 2
    /\ state.conversation_history[1].assistant \in GEN_REPLIES
    /\ state.conversation_history[2] =
           [user |-> <<"h","e","l","l","o">>, assistant |-> UNCLEAR_TEXT]

(***************************************************************************)
(* Vocabulary of the calls on a MedicalVoiceAgent.                         *)
(***************************************************************************)
\* the call made last was op and it handed a dict back
ReturnedFrom(op) == last.op = op /\ ~last.result.raised

\* the nodes the call made last visited
CallNodes == NodesOf(last.path)

\* C26 (as claimed): through MedicalVoiceAgent a detail round completes.
\* When process_text_input has returned stage waiting_for_details, the next
\* process_text_input call returns a dict, reaches the agent that asked for
\* the details without asking again, and calls the generator; when the
\* generator succeeds the stage it returns is complete.
C26_DetailRoundCompletes ==
    [][(/\ ReturnedFrom("process_text_input")
        /\ last.result.value.stage = "waiting_for_details"
        /\ last'.op = "process_text_input") =>
            /\ ~last'.result.raised
            /\ NodesOf(last'.path) \cap DOMAIN_NODES = CallNodes \cap DOMAIN_NODES
            /\ Called(state'.llm_log, "generate")
            /\ CalledWith(state'.llm_log, "generate", TRUE) =>
                   last'.result.value.stage = "complete"]_vars

\* the number of words of an utterance, as str.split() counts them
WordCount(u) ==
    Cardinality({i \in 1..Len(u) :
                    /\ u[i] \notin Whitespace
                    /\ (i = 1 \/ u[i - 1] \in Whitespace)})

\* u is nothing but a selection token of the option bound to intent
IsBareSelection(u, intent) ==
    /\ WordCount(u) < 5
    /\ \E k \in 1..3 : MenuIntent(k) = intent /\ Norm(u) \in MenuTokens(k)

\* C27 (as claimed): a turn that starts in waiting_for_details with an
\* utterance of fewer than 5 words that is only the selection token of the
\* pending intent is a selection echo: the stage stays waiting_for_details,
\* the clarifying question is asked again and the generator is not called.
C27_BareSelectionIsEcho ==
    (/\ IsTurn
     /\ last.pre.stage = "waiting_for_details"
     /\ IsBareSelection(last.input, last.pre.intent)) =>
        /\ state.stage = "waiting_for_details"
        /\ state.response = PromptOf(last.owner)
        /\ ~Called(state.llm_log, "generate")

\* the dict process_text_input hands back for the greeting
GreetingResult ==
    Returned([response |-> GREETING_TEXT, intent |-> "greeting",
              stage |-> "waiting_for_choice"])

\* C28: reset_session puts the agent back at the greeting, whatever the
\* stage it was in: the stage is greeting and the counter 0, the next
\* process_text_input call returns the greeting menu with stage
\* waiting_for_choice, and every later processing call starts the graph
\* from a state built from the new utterance and the profile alone, with
\* an empty history, no intent and stage waiting_for_choice, so nothing of
\* the earlier conversation reaches it.
C28_ResetStartsOver ==
    [][/\ (last'.op = "reset_session") =>
             /\ agent'.current_stage = "greeting"
             /\ agent'.conversation_count = 0
       /\ (last.op = "reset_session" /\ last'.op = "process_text_input") =>
             /\ last'.result = GreetingResult
             /\ last'.built = create_initial_state(<<>>, agent.user_profile, TRUE)
             /\ agent'.current_stage = "waiting_for_choice"
       /\ (/\ last'.op = "process_text_input"
           /\ agent.current_stage # "greeting") =>
             last'.built = [create_initial_state(last'.input, agent.user_profile,
                                                 FALSE)
                               EXCEPT !.stage = "waiting_for_choice"]]_vars

\* the third call came after a reset (an agent with a voice processor is at
\* greeting after a call only through reset_session) and returned the
\* greeting menu instead of classifying its input
C28_Witness ==
    /\ turns = 3
    /\ last.op = "process_text_input"
    /\ last.pre.voice
    /\ last.pre.current_stage = "greeting"
    /\ last.input = <<"f","e","v","e","r">>
    /\ last.result = GreetingResult
    /\ agent.current_stage = "waiting_for_choice"

(***************************************************************************)
(* The callers of the graph: either run_conversation runs, or a caller of  *)
(* one MedicalVoiceAgent does.                                             *)
(***************************************************************************)
InitCallers ==
    \/ Init
    \/ InitAgent

NextCallers ==
    \/ Next
    \/ NextAgent

SpecCallers == InitCallers /\ [][NextCallers]_vars

\* the voice call got a transcription that is empty or blank
EmptyTranscription ==
    /\ pc = "agent"
    /\ last'.op = "process_voice_input"
    /\ agent.voice
    /\ last'.input.ok
    /\ Strip(last'.input.text) = <<>>

PAST_SESSIONS ==
    {[intent |-> "", conversation_history |-> <<>>],
     [intent |-> "general_health",
      conversation_history |->
          <<[user |-> <<"d","i","e","t">>, assistant |-> "Rest and drink fluids."]>>],
     [intent |-> "unclear",
      conversation_history |-> <<[user |-> <<"h","e","l","l","o">>, assistant |-> UNCLEAR_TEXT]>>]}

InitRouting ==
    /\ \E u \in Utterances, p \in PROFILES, past \in PAST_SESSIONS :
          state = [create_initial_state(u, p, FALSE)
                      EXCEPT !.intent = past.intent,
                             !.conversation_history = past.conversation_history]
    /\ pc = "invoke"
    /\ last = [op |-> "none", input |-> state.user_input, pre |-> state,
               path |-> <<>>, owner |-> ""]
    /\ round_owner = ""
    /\ turns = 0
    /\ agent = <<>>
    /\ ui = <<>>

SpecRouting == InitRouting /\ [][InvokeGraph]_vars

\* the turn a fresh session makes on the utterance when no LLM call succeeds
ReferenceTurn(u) ==
    graph_invoke(create_initial_state(u, DEFAULT_PROFILE, FALSE), LLM_RAISES,
                 [ok |-> FALSE, content |-> ""])

\* C30: a turn made in stage waiting_for_choice on an utterance decided by
\* a deterministic rule yields the intent, the nodes visited, the reply and
\* the next stage that a fresh session yields on the same utterance,
\* whatever the history, the user profile and the stored intent of the
\* session and whatever the LLM would have answered (so any two such
\* sessions agree); and the handler entered after choice_handler is the one
\* route_from_choice gives for the intent label alone.
C30_RoutingIsDeterministic ==
    (IsInvoke /\ last.pre.stage = "waiting_for_choice") =>
        /\ MatchesDeterministicRule(last.input) =>
              LET ref == ReferenceTurn(last.input)
              IN  /\ state.intent = ref.state.intent
                  /\ NodeNames(last.path) = NodeNames(ref.path)
                  /\ state.response = ref.state.response
                  /\ state.stage = ref.state.stage
                  /\ state.llm_log = <<>>
        /\ /\ Len(last.path) >= 3
           /\ last.path[2].node = "choice_handler"
           /\ last.path[3].node = route_from_choice([intent |-> state.intent])
           /\ route_from_choice(state) = route_from_choice([intent |-> state.intent])

\* a session with a filled profile, a history and a stored intent
\* general_health got "1" and was routed to the symptom handler
C30_Witness ==
    /\ IsInvoke
    /\ last.pre.stage = "waiting_for_choice"
    /\ last.pre.intent = "general_health"
    /\ last.pre.user_profile = AGENT_PROFILE
    /\ last.pre.conversation_history # <<>>
    /\ last.input = <<"1">>
    /\ state.intent = "symptom_check"
    /\ NodeNames(last.path) = <<"router", "choice_handler", "symptom", "route_back">>
    /\ state.stage = "waiting_for_details"

(***************************************************************************)
(* Properties of one invocation of the full graph.                         *)
(***************************************************************************)
\* the last operation was an invocation of the compiled graph
IsGraphInvocation == last.op \in {"greet", "turn", "reinvoke", "invoke"}

TURN_BOUNDARY_STAGES == {"waiting_for_choice", "waiting_for_details", "exit"}

\* C31: whatever the state, the utterance and the LLM outcomes, a graph
\* invocation ends in route_back or exit with the stage in
\* {waiting_for_choice, waiting_for_details, exit}; greeting, processing
\* and complete are never the stage the caller holds between invocations.
C31_TurnBoundaryStage ==
    /\ IsGraphInvocation =>
          /\ last.path # <<>>
          /\ last.path[Len(last.path)].node \in {"route_back", "exit"}
          /\ last.path[Len(last.path)].stage = state.stage
          /\ state.stage \in TURN_BOUNDARY_STAGES
    /\ pc \in {"loop", "done"} => state.stage \in TURN_BOUNDARY_STAGES

\* a turn passed through processing and complete and was returned at exit
C31_Witness ==
    /\ IsTurn
    /\ last.pre.stage = "waiting_for_choice"
    /\ Reported(last.path, "choice_handler", "processing")
    /\ Reported(last.path, "emergency", "complete")
    /\ state.stage = "exit"

DOMAIN_INTENTS == {"symptom_check", "medication_reminder", "general_health"}

\* C32: between the turns of a conversation that started from
\* create_initial_state, a session at waiting_for_details stores a domain
\* intent, so the router sends it to a domain handler; a turn that started
\* in waiting_for_details went from the router straight to the domain
\* handler of the stored intent and reached neither the classifier nor the
\* emergency handler, the unclear handler or the exit node.
C32_DetailStageHasDomainIntent ==
    /\ (pc \in {"loop", "done"} /\ state.stage = "waiting_for_details") =>
          /\ state.intent \in DOMAIN_INTENTS
          /\ route_from_router(state) \in DOMAIN_NODES
    /\ (IsTurn /\ last.pre.stage = "waiting_for_details") =>
          /\ last.pre.intent \in DOMAIN_INTENTS
          /\ Len(last.path) = 3
          /\ last.path[2].node = route_from_choice(last.pre)
          /\ last.path[2].node \in DOMAIN_NODES
          /\ Visited \cap {"choice_handler", "emergency", "unclear", "exit"} = {}

\* a detail turn of the medication round whose generation failed: the
\* session still waits for details with the same intent
C32_Witness ==
    /\ IsTurn
    /\ last.pre.stage = "waiting_for_details"
    /\ last.pre.intent = "medication_reminder"
    /\ NodeNames(last.path) = <<"router", "medication", "route_back">>
    /\ state.stage = "waiting_for_details"
    /\ state.intent = "medication_reminder"
    /\ pc = "loop"

\* C33: an invocation of the full graph makes at most one llm.invoke call.
\* Started in waiting_for_choice it makes no generation call and at most
\* one classification call; started in waiting_for_details it makes exactly
\* one generation call and no classification call; started in greeting or
\* exit it makes none.
C33_AtMostOneLlmCallPerInvocation ==
    IsGraphInvocation =>
        /\ Len(state.llm_log) <= 1
        /\ last.pre.stage = "waiting_for_choice" =>
              ~Called(state.llm_log, "generate")
        /\ last.pre.stage = "waiting_for_details" =>
              /\ Len(state.llm_log) = 1
              /\ state.llm_log[1].call = "generate"
        /\ last.pre.stage \in {"greeting", "exit"} => state.llm_log = <<>>

\* a detail turn made its one call, to the generator, and completed the round
C33_Witness ==
    /\ IsTurn
    /\ last.pre.stage = "waiting_for_details"
    /\ state.llm_log = <<[call |-> "generate", ok |-> TRUE]>>
    /\ NodeNames(last.path) = <<"router", "symptom", "route_back">>
    /\ state.stage = "waiting_for_choice"

\* C34: an invocation of the full graph ends after at most four nodes, none
\* visited twice: the router, then at most one of greeting and
\* choice_handler, at most one handler, and last route_back or exit.  A
\* handler that answers "stay" is followed by route_back, which ends the
\* turn, and the reply returned is the one that handler wrote.
C34_EachNodeAtMostOncePerTurn ==
    IsGraphInvocation =>
        /\ Len(last.path) \in 2..4
        /\ Cardinality(Visited) = Len(last.path)
        /\ last.path[1].node = "router"
        /\ last.path[Len(last.path)].node \in {"route_back", "exit"}
        /\ Cardinality(Visited \cap {"greeting", "choice_handler"}) <= 1
        /\ Cardinality(Visited \cap AGENT_NODES) <= 1
        /\ \A i \in 2..(Len(last.path) - 1) :
              /\ last.path[i].node \in {"greeting", "choice_handler"} => i = 2
              /\ last.path[i].node \in AGENT_NODES => i = Len(last.path) - 1
        /\ state.next_action = "stay" =>
              /\ last.path[Len(last.path)].node = "route_back"
              /\ last.path[Len(last.path) - 1].node \in DOMAIN_NODES
              /\ state.response = last.path[Len(last.path) - 1].response

\* the health handler asked for details (it answered "stay") and the turn
\* ended after four nodes with its prompt as the reply
C34_Witness ==
    /\ IsTurn
    /\ state.next_action = "stay"
    /\ NodeNames(last.path) = <<"router", "choice_handler", "health", "route_back">>
    /\ state.response = HEALTH_PROMPT
    /\ state.stage = "waiting_for_details"

\* the last invocation was answered by a generation that succeeded
GenerationSucceeded ==
    /\ last.pre.stage = "waiting_for_details"
    /\ CalledWith(state.llm_log, "generate", TRUE)

\* C35: an invocation of the full graph keeps the history it found and
\* appends exactly one entry when a detail round was answered by a
\* successful generation or when the emergency handler or the unclear
\* handler ran; in every other invocation (greeting, clarifying prompt of a
\* fresh entry, generator failure, exit keyword, exit stage) the history is
\* the one it found.
C35_HistoryGrowthPerTurn ==
    IsGraphInvocation =>
        IF GenerationSucceeded \/ Visited \cap {"emergency", "unclear"} # {}
        THEN /\ Len(state.conversation_history) =
                    Len(last.pre.conversation_history) + 1
             /\ SubSeq(state.conversation_history, 1,
                       Len(last.pre.conversation_history)) =
                    last.pre.conversation_history
        ELSE state.conversation_history = last.pre.conversation_history

\* the unclear handler added one entry to a history that had one, and the
\* conversation has also seen a turn that added none
C35_Witness ==
    /\ IsTurn
    /\ "unclear" \in Visited
    /\ Len(last.pre.conversation_history) = 1
    /\ Len(state.conversation_history) = 2
    /\ turns = 3

START_FIRST_TEXT == "Please click 'Start Greeting' first."

PROVIDE_INPUT_TEXT ==
    "Provide audio (record/upload) or type a message, then click 'Run Turn'."

GREETING_DONE_TEXT == "Greeting already completed. You can proceed with audio."

TURN_COMPLETED_TEXT == "Turn completed."

new_ui_state ==
    [phase              |-> "init",
     conversation_stage |-> "greeting",
     last_transcript    |-> <<>>,
     last_intent        |-> "",
     last_response      |-> ""]

\* the dict handed to graph.invoke: it has a key conversation_stage and no
\* key stage, next_action or conversation_history (messages and context,
\* which no routing reads, are left out)
build_initial_graph_state(conversation_stage, user_input) ==
    [conversation_stage |-> conversation_stage,
     user_input         |-> user_input,
     intent             |-> "",
     user_profile       |-> AGENT_PROFILE,
     response           |-> ""]

\* the ConversationState the nodes read out of the dict they are given: a
\* key the dict lacks reads as the default of the get that reads it first,
\* state.get("stage", "greeting") in route_from_router and
\* state.get("next_action", "route") in route_after_agent; a missing
\* conversation_history is created empty by the handlers
state_read(d) ==
    [user_input           |-> d.user_input,
     response             |-> d.response,
     stage                |-> IF "stage" \in DOMAIN d THEN d.stage ELSE "greeting",
     intent               |-> d.intent,
     user_profile         |-> d.user_profile,
     next_action          |-> IF "next_action" \in DOMAIN d THEN d.next_action
                              ELSE "route",
     conversation_history |-> IF "conversation_history" \in DOMAIN d
                              THEN d.conversation_history ELSE <<>>,
     llm_log              |-> <<>>]

\* whether graph.invoke hands back a key of its input that is no field of
\* ConversationState: that is LangGraph's doing, so both are admitted
CARRIES_UNKNOWN_KEYS == BOOLEAN

\* result.get("conversation_stage", default): no node writes that key
result_conversation_stage(d, carried, default) ==
    IF carried THEN d.conversation_stage ELSE default

\* what a handler shows: status or greeting box, transcript, intent, response
Outputs(message, transcript, intent, response) ==
    [message |-> message, transcript |-> transcript, intent |-> intent,
     response |-> response]

\* start_greeting from graph.invoke's result on
greeted_result(u, d, res, carried) ==
    [ui      |-> [u EXCEPT !.phase = "greeted",
                           !.conversation_stage =
                               result_conversation_stage(d, carried, "asking_need"),
                           !.last_response = res.state.response],
     invoked |-> TRUE,
     built   |-> d,
     state   |-> res.state,
     path    |-> res.path,
     result  |-> Returned(Outputs(res.state.response, <<>>, res.state.intent,
                                  res.state.response))]

start_greeting(u, s, cls, gen, carried) ==
    IF u.phase # "init"
    THEN [ui      |-> [u EXCEPT !.phase = "greeted"],
          invoked |-> FALSE,
          built   |-> <<>>,
          state   |-> s,
          path    |-> <<>>,
          result  |-> Returned(Outputs(GREETING_DONE_TEXT, u.last_transcript,
                                       u.last_intent, u.last_response))]
    ELSE TheOne({greeted_result(u, build_initial_graph_state("greeting", <<>>),
                                res, carried) :
                 res \in {graph_invoke(
                              state_read(build_initial_graph_state("greeting", <<>>)),
                              cls, gen)}})

\* what the audio input holds: nothing, or a file that speech_to_text_from_file
\* turns into a stripped text or fails on
NO_AUDIO == [given |-> FALSE, ok |-> TRUE, text |-> <<>>]

\* a handler that touched nothing and showed a message
refused(u, s, message) ==
    [ui |-> u, invoked |-> FALSE, built |-> <<>>, state |-> s, path |-> <<>>,
     result |-> Returned(Outputs(message, <<>>, "", ""))]

\* run_turn from graph.invoke's result on
turn_result(u, d, res, carried) ==
    [ui      |-> [u EXCEPT !.phase = "responded",
                           !.conversation_stage =
                               result_conversation_stage(d, carried, "followup"),
                           !.last_transcript = d.user_input,
                           !.last_intent = res.state.intent,
                           !.last_response = res.state.response],
     invoked |-> TRUE,
     built   |-> d,
     state   |-> res.state,
     path    |-> res.path,
     result  |-> Returned(Outputs(TURN_COMPLETED_TEXT, d.user_input,
                                  res.state.intent, res.state.response))]

\* run_turn once user_text is known
turn_on(u, user_text, cls, gen, carried) ==
    LET stage == IF u.conversation_stage = "greeting" THEN "asking_need"
                 ELSE u.conversation_stage
    IN  TheOne({turn_result(u, build_initial_graph_state(stage, user_text), res,
                            carried) :
                res \in {graph_invoke(
                            state_read(build_initial_graph_state(stage, user_text)),
                            cls, gen)}})

run_turn(u, s, audio, typed_text, cls, gen, carried) ==
    IF u.phase = "init" THEN refused(u, s, START_FIRST_TEXT)
    ELSE IF Strip(typed_text) # <<>>
    THEN turn_on(u, Strip(typed_text), cls, gen, carried)
    ELSE IF ~audio.given THEN refused(u, s, PROVIDE_INPUT_TEXT)
    ELSE IF ~audio.ok
    THEN [ui |-> u, invoked |-> FALSE, built |-> <<>>, state |-> s,
          path |-> <<>>, result |-> RAISED]
    ELSE turn_on(u, audio.text, cls, gen, carried)

(***************************************************************************)
(* A user of the demo: the buttons in any order, any typed text, any       *)
(* audio.                                                                  *)
(***************************************************************************)
TYPED_TEXTS == {<<>>, <<" "," ">>, <<"1">>, <<" ","f","e","v","e","r">>, <<"h","e","l","l","o">>, <<"e","m","e","r","g","e","n","c","y">>, <<"b","y","e">>}

AUDIO_INPUTS ==
    {NO_AUDIO, [given |-> TRUE, ok |-> FALSE, text |-> <<>>]}
        \cup {[given |-> TRUE, ok |-> TRUE, text |-> t] : t \in {<<>>, <<"2">>}}

\* the handler returns: the dict in gr.State, and what the boxes show
Shown(op, input, r) ==
    /\ ui' = r.ui
    /\ state' = r.state
    /\ last' = [op |-> op, input |-> input, pre |-> ui, path |-> r.path,
                owner |-> "", built |-> r.built, result |-> r.result,
                invoked |-> r.invoked]

InitApp ==
    /\ ui = new_ui_state
    /\ state = state_read(build_initial_graph_state("greeting", <<>>))
    /\ pc = "ui"
    /\ last = [op |-> "none", input |-> <<>>, pre |-> ui, path |-> <<>>,
               owner |-> "", built |-> <<>>, result |-> Returned(""),
               invoked |-> FALSE]
    /\ round_owner = ""
    /\ turns = 0
    /\ agent = <<>>

StartGreeting ==
    /\ pc = "ui"
    /\ \E gen \in AgentGenerateOutcomes, carried \in CARRIES_UNKNOWN_KEYS :
       \E cls \in AgentClassifyOutcomes(<<>>) :
       \E r \in {start_greeting(ui, state, cls, gen, carried)} :
          Shown("start_greeting", <<>>, r)
    /\ UNCHANGED <<pc, round_owner, turns, agent>>

RunTurn ==
    /\ pc = "ui"
    /\ \E audio \in AUDIO_INPUTS, typed_text \in TYPED_TEXTS,
          gen \in AgentGenerateOutcomes, carried \in CARRIES_UNKNOWN_KEYS :
       \E cls \in AgentClassifyOutcomes(IF Strip(typed_text) # <<>>
                                       THEN typed_text ELSE audio.text) :
       \E r \in {run_turn(ui, state, audio, typed_text, cls, gen, carried)} :
          Shown("run_turn", [audio |-> audio, typed_text |-> typed_text], r)
    /\ UNCHANGED <<pc, round_owner, turns, agent>>

Reset ==
    /\ pc = "ui"
    /\ ui' = new_ui_state
    /\ last' = [op |-> "reset", input |-> <<>>, pre |-> ui, path |-> <<>>,
                owner |-> "", built |-> <<>>,
                result |-> Returned(Outputs("", "", "", "")),
                invoked |-> FALSE]
    /\ UNCHANGED <<state, pc, round_owner, turns, agent>>

NextApp ==
    \/ StartGreeting
    \/ RunTurn
    \/ Reset

SpecApp == InitApp /\ [][NextApp]_vars

\* C37 (as claimed): a Run Turn that invokes the graph sends the user's
\* text through choice_handler; it never visits the greeting node, so the
\* response shown is never the greeting menu.
C37_RunTurnReachesClassifier ==
    (pc = "ui" /\ last.op = "run_turn" /\ last.invoked) =>
        /\ last.built.conversation_stage # "greeting"
        /\ "greeting" \notin Visited
        /\ "choice_handler" \in Visited
        /\ last.result.value.response # GREETING_TEXT

PhaseRank(phase) ==
    CASE phase = "init" -> 0
      [] phase = "greeted" -> 1
      [] phase = "responded" -> 2

\* C38 (as claimed): run_turn in phase init does not invoke the graph,
\* shows the 'click Start Greeting first' message and leaves the UI state
\* unchanged; the phase never skips greeted on its way from init, and it
\* goes back to an earlier phase only in reset.
C38_DemoFlowInSequence ==
    [][pc = "ui" =>
          /\ (last'.op = "run_turn" /\ ui.phase = "init") =>
                /\ ~last'.invoked
                /\ ui' = ui
                /\ state' = state
                /\ last'.result = Returned(Outputs(START_FIRST_TEXT, <<>>, "", ""))
          /\ ui.phase = "init" => ui'.phase \in {"init", "greeted"}
          /\ last'.op # "reset" => PhaseRank(ui'.phase) >= PhaseRank(ui.phase)]_vars
====
